---- MODULE Spec2Model ----
(***************************************************************************)
(* Box-spread market maker: the strategy engine (strategy_engine.py), its  *)
(* inventory ledger (models.py), the price policy (config.py), the fill    *)
(* stream (user_channel.py) and the exchange the engine talks to.          *)
(*                                                                         *)
(* Units.  Prices are integers counting quarter-cents (Tick = 4 units is   *)
(* the exchange tick 0.01, One = 400 units is 1.00), so that a value that  *)
(* is off the tick can be told from a tick.  Quantities are integers       *)
(* counting half shares (QtyScale = 2 units per share), so that 2.5 shares *)
(* is a quantity.  Costs are exact rationals [n, d] of price*quantity      *)
(* units.  Python's round(x, 2) is modelled as round-to-nearest-tick with  *)
(* ties to the even tick.                                                  *)
(*                                                                         *)
(* Scheduling.  The asyncio tasks (the order-book callback and the _step   *)
(* tasks created by on_fill) run from one suspension point to the next as  *)
(* one action; the suspension points are the exchange calls.  on_fill is   *)
(* called on the websocket thread and is one action of its own.  A place   *)
(* call takes effect on the exchange when it is issued and returns later;  *)
(* a cancel call takes effect on the exchange when it returns.             *)
(***************************************************************************)
EXTENDS Integers, Sequences, FiniteSets, TLC

VARIABLES
    phase,          \* wall clock against expiry: "normal", "buffer", "final"
    c_target,       \* Config.c_target
    mode,           \* StrategyState.mode
    inv,            \* StrategyState.inventory
    trap_order_yes, \* StrategyState.trap_order_yes (order id, 0 = None)
    trap_order_no,  \* StrategyState.trap_order_no  (order id, 0 = None)
    hedge_order,    \* StrategyState.hedge_order    (order id, 0 = None)
    orderbook_yes,  \* StrategyState.orderbook_yes: best ask (-1 = no book, 0 = no asks)
    orderbook_no,   \* StrategyState.orderbook_no
    placing_traps,  \* StrategyEngine._placing_traps
    placing_hedge,  \* StrategyEngine._placing_hedge
    order_outcome,  \* StrategyEngine._order_outcome: set of <<order id, outcome>>
    tracked,        \* UserChannelManager._tracked_order_ids
    lock,           \* StrategyEngine._lock: the task holding it, -1 = free
    task,           \* the _step coroutines: task 0 is on_orderbook, the others on_fill's
    orders,         \* the exchange: every order the engine issued, by id
    orderBudget,    \* orders the exchange accepts in this session
    faults,         \* exchange irregularities so far: refusals, failed cancels, partial matches
    finalDone,      \* a tick that ran inside the final-exit window has completed
    fill_calls,     \* per order id, the calls of the fill callback so far (2 = two or more)
    ob,             \* OrderBookManager: _running, _ws, _reconnect_task, the tasks in _connect
    session,        \* run_single_market: its position, the streams, the steps of stop()
    lastFill        \* what the fill stream did in the last transition: the on_fill
                    \* call (its order id, 0 = no call, how on_fill classified the id,
                    \* and the outcome, price and size the stream reported), or the
                    \* order event it handled (its type and order id)

vars == <<phase, c_target, mode, inv, trap_order_yes, trap_order_no, hedge_order,
          orderbook_yes, orderbook_no, placing_traps, placing_hedge, order_outcome,
          tracked, lock, task, orders, orderBudget, faults, finalDone, fill_calls,
          ob, session, lastFill>>

---------------------------------------------------------------------------
(* Bounds of the model *)

MaxOrders == 3          \* orders the exchange accepts in one session
MaxFillTasks == 1       \* _step tasks created by on_fill that exist at once
MaxFaults == 1          \* refusals, failed cancels and partial matches in one session
MaxRoundOrders == 6     \* orders the exchange accepts in a session of sequential rounds
MaxLedgerFills == 3     \* record_fill calls in a sequence of ledger operations
MaxObFailures == 3      \* failed connections, failed subscriptions and disconnects of the book stream
MaxConcurrentSteps == 2 \* _step tasks created by on_fill in the concurrent sessions
MaxHedgeOrders == 4      \* orders the exchange accepts in the hedging sessions
MaxConcurrentOrders == 4 \* orders the exchange accepts in the concurrent sessions
MaxObMessages == 3      \* messages counted on the book stream

---------------------------------------------------------------------------
(* Units and program constants *)

Tick == 4
One == 100 * Tick
QtyScale == 2

ProfitMarginPct == 2            \* PROFIT_MARGIN default 0.02
TrapOrderSize == 10             \* TRAP_ORDER_SIZE default, shares
MaxExposure == 100              \* MAX_EXPOSURE default, shares
RangeMinPct == 40               \* RANGE_MIN default 0.40
RangeMaxPct == 60               \* RANGE_MAX default 0.60
MinHedgeThresholdTenths == 25   \* MIN_HEDGE_THRESHOLD = 2.5 shares
MinPolymarketSizeTenths == 50   \* MIN_POLYMARKET_SIZE = 5.0 shares

CTargetDefault == One - ProfitMarginPct * Tick
range_min == RangeMinPct * Tick
range_max == RangeMaxPct * Tick
trap_order_size == TrapOrderSize * QtyScale

Outcomes == {"YES", "NO"}
Opposite(o) == IF o = "YES" THEN "NO" ELSE "YES"

\* Best asks the book stream reports: 0.40 and 0.58 (inside the band), and 0, which
\* stands for a book with no asks (outside the band).
AsksYes == {0, 40 * Tick}
AsksNo == {40 * Tick, 58 * Tick}
Asks(outcome) == IF outcome = "YES" THEN AsksYes ELSE AsksNo

\* Best asks of the sessions of sequential rounds: 0.40 and 0.60, on either outcome.
RoundAsks == {40 * Tick, 60 * Tick}

\* Sizes (in quantity units) of the first, partial match of an order: one share and
\* 2.5 shares.  An order is matched in at most two trades: a partial one and the rest.
FillSizes == {1 * QtyScale, 5}

Abs(x) == IF x < 0 THEN -x ELSE x
Min(a, b) == IF a <= b THEN a ELSE b
Max(a, b) == IF a >= b THEN a ELSE b

---------------------------------------------------------------------------
(* Exact rationals [n, d], d > 0, in lowest terms *)

RECURSIVE GCD(_, _)
GCD(a, b) == IF b = 0 THEN a ELSE GCD(b, a % b)

Rat(n, d) == LET g == GCD(Abs(n), d) IN [n |-> n \div g, d |-> d \div g]
RInt(k) == [n |-> k, d |-> 1]
RAdd(a, b) == Rat(a.n * b.d + b.n * a.d, a.d * b.d)
RSub(a, b) == Rat(a.n * b.d - b.n * a.d, a.d * b.d)
RMul(a, b) == Rat(a.n * b.n, a.d * b.d)
RDivInt(a, k) == Rat(a.n, a.d * k)
RLess(a, b) == a.n * b.d < b.n * a.d
RLeq(a, b) == a.n * b.d <= b.n * a.d
RMax(a, b) == IF RLeq(b, a) THEN a ELSE b
RMin(a, b) == IF RLeq(a, b) THEN a ELSE b

\* round(x, 2) of a non-negative price x: the nearest tick, ties to the even tick.
RoundTick(x) ==
    LET den == x.d * Tick
        k == x.n \div den
        rem == x.n - k * den
    IN  IF 2 * rem > den THEN (k + 1) * Tick
        ELSE IF 2 * rem < den THEN k * Tick
        ELSE IF k % 2 = 0 THEN k * Tick ELSE (k + 1) * Tick

\* round(max(0.01, min(0.99, price)), 2)
ClampRound(x) == RoundTick(RMax(RInt(Tick), RMin(RInt(99 * Tick), x)))

---------------------------------------------------------------------------
(* Price policy, config.py *)

\* A compute_trap_price that tests only the own ask against the band.
compute_trap_price_OwnAskOnly(ct, opposing_ask, own_ask) ==
    IF own_ask < range_min \/ own_ask > range_max
    THEN 0
    ELSE LET trap_price == ct - opposing_ask
         IN  IF trap_price <= Tick \/ trap_price > 99 * Tick
             THEN 0
             ELSE RoundTick(RInt(trap_price))

\* Config.compute_trap_price; 0 stands for None.
compute_trap_price(ct, opposing_ask, own_ask) ==
    IF own_ask < range_min \/ own_ask > range_max
       \/ opposing_ask < range_min \/ opposing_ask > range_max
    THEN 0
    ELSE LET trap_price == ct - opposing_ask
         IN  IF trap_price <= Tick \/ trap_price > 99 * Tick
             THEN 0
             ELSE RoundTick(RInt(trap_price))

\* Config.compute_hedge_price; own_vwap is a rational.
compute_hedge_price(ct, own_vwap) == ClampRound(RSub(RInt(ct), own_vwap))

---------------------------------------------------------------------------
(* Inventory ledger, models.py *)

EmptyInventory ==
    [q_yes |-> 0, c_yes |-> RInt(0), q_no |-> 0, c_no |-> RInt(0),
     locked_profit |-> RInt(0), locked_quantity |-> 0, completed_rounds |-> 0,
     total_trades |-> 0, total_volume |-> RInt(0)]

mu_yes(i) == IF i.q_yes = 0 THEN RInt(0) ELSE RDivInt(i.c_yes, i.q_yes)
mu_no(i) == IF i.q_no = 0 THEN RInt(0) ELSE RDivInt(i.c_no, i.q_no)
delta_q(i) == i.q_yes - i.q_no
combined_vwap(i) == RAdd(mu_yes(i), mu_no(i))

\* InventoryState.record_fill; price in price units, size in quantity units.
record_fill(i, outcome, side, price, size) ==
    LET i0 == [i EXCEPT !.total_trades = @ + 1,
                        !.total_volume = RAdd(@, RInt(price * size))]
    IN  IF outcome = "YES"
        THEN IF side = "BUY"
             THEN [i0 EXCEPT !.c_yes = RAdd(@, RInt(price * size)), !.q_yes = @ + size]
             ELSE IF i0.q_yes > 0
                  THEN [i0 EXCEPT
                          !.c_yes = RSub(@, RMul(mu_yes(i0), RInt(Min(size, i0.q_yes)))),
                          !.q_yes = Max(0, @ - size)]
                  ELSE i0
        ELSE IF side = "BUY"
             THEN [i0 EXCEPT !.c_no = RAdd(@, RInt(price * size)), !.q_no = @ + size]
             ELSE IF i0.q_no > 0
                  THEN [i0 EXCEPT
                          !.c_no = RSub(@, RMul(mu_no(i0), RInt(Min(size, i0.q_no)))),
                          !.q_no = Max(0, @ - size)]
                  ELSE i0

\* lock_profit that does not record the quantity it has locked.
lock_profit_NoLockedQuantity(i, ct) ==
    LET lockable == Min(i.q_yes, i.q_no)
        new_locked == lockable - i.locked_quantity
        profit_per_share == RSub(RInt(One), RAdd(mu_yes(i), mu_no(i)))
    IN  IF lockable <= i.locked_quantity THEN i
        ELSE IF RLess(RInt(0), profit_per_share)
             THEN [i EXCEPT
                     !.locked_profit = RAdd(@, RMul(RInt(new_locked), profit_per_share)),
                     !.completed_rounds = @ + 1]
             ELSE i

\* lock_profit without the test profit_per_share > 0.
lock_profit_NoProfitTest(i, ct) ==
    LET lockable == Min(i.q_yes, i.q_no)
        new_locked == lockable - i.locked_quantity
        profit_per_share == RSub(RInt(One), RAdd(mu_yes(i), mu_no(i)))
    IN  IF lockable <= i.locked_quantity THEN i
        ELSE [i EXCEPT
                !.locked_profit = RAdd(@, RMul(RInt(new_locked), profit_per_share)),
                !.locked_quantity = lockable,
                !.completed_rounds = @ + 1]

\* InventoryState.lock_profit; the parameter is not read by the code.
lock_profit(i, ct) ==
    LET lockable == Min(i.q_yes, i.q_no)
        new_locked == lockable - i.locked_quantity
        profit_per_share == RSub(RInt(One), combined_vwap(i))
    IN  IF lockable <= i.locked_quantity THEN i
        ELSE IF RLess(RInt(0), profit_per_share)
             THEN [i EXCEPT
                     !.locked_profit = RAdd(@, RMul(RInt(new_locked), profit_per_share)),
                     !.locked_quantity = lockable,
                     !.completed_rounds = @ + 1]
             ELSE i

\* InventoryState.to_dict: the keys the dictionary carries (timestamps left out)
to_dict(i) ==
    [q_yes |-> i.q_yes, c_yes |-> i.c_yes, q_no |-> i.q_no, c_no |-> i.c_no,
     locked_profit |-> i.locked_profit, locked_quantity |-> i.locked_quantity,
     total_trades |-> i.total_trades, total_volume |-> i.total_volume]

\* data.get(key, default)
DictGet(data, key, default) == IF key \in DOMAIN data THEN data[key] ELSE default

\* InventoryState.from_dict: a field that is not passed keeps the class default
from_dict(data) ==
    [q_yes |-> DictGet(data, "q_yes", 0),
     c_yes |-> DictGet(data, "c_yes", RInt(0)),
     q_no |-> DictGet(data, "q_no", 0),
     c_no |-> DictGet(data, "c_no", RInt(0)),
     locked_profit |-> DictGet(data, "locked_profit", RInt(0)),
     locked_quantity |-> DictGet(data, "locked_quantity", 0),
     completed_rounds |-> EmptyInventory.completed_rounds,
     total_trades |-> DictGet(data, "total_trades", 0),
     total_volume |-> DictGet(data, "total_volume", RInt(0))]

\* safety.exposure_exceeded
exposure_exceeded(i) == Abs(delta_q(i)) > MaxExposure * QtyScale

---------------------------------------------------------------------------
(* The engine state as one record, so that the code's statements compose *)

St ==
    [mode |-> mode, inv |-> inv,
     trap_order_yes |-> trap_order_yes, trap_order_no |-> trap_order_no,
     hedge_order |-> hedge_order,
     orderbook_yes |-> orderbook_yes, orderbook_no |-> orderbook_no,
     placing_traps |-> placing_traps, placing_hedge |-> placing_hedge,
     order_outcome |-> order_outcome, tracked |-> tracked, lock |-> lock,
     task |-> task, orders |-> orders, faults |-> faults, finalDone |-> finalDone,
     fill_calls |-> fill_calls, lastFill |-> lastFill]

\* An order that no longer rests and that the engine no longer refers to.
GoneOrder ==
    [kind |-> "gone", outcome |-> "YES", side |-> "BUY", time_in_force |-> "GTC",
     price |-> 0, size |-> 0, remaining |-> 0,
     resting |-> FALSE, matched |-> 0]

\* The exchange forgets the details of such orders.
Forget(s) ==
    [id \in DOMAIN s.orders |->
        IF s.orders[id].resting
           \/ id \in {s.trap_order_yes, s.trap_order_no, s.hedge_order}
           \/ \E t \in DOMAIN s.task : s.task[t].oid = id
        THEN s.orders[id]
        ELSE GoneOrder]

Apply(s) ==
    /\ s.faults <= MaxFaults
    /\ faults' = s.faults
    /\ mode' = s.mode
    /\ inv' = s.inv
    /\ trap_order_yes' = s.trap_order_yes
    /\ trap_order_no' = s.trap_order_no
    /\ hedge_order' = s.hedge_order
    /\ orderbook_yes' = s.orderbook_yes
    /\ orderbook_no' = s.orderbook_no
    /\ placing_traps' = s.placing_traps
    /\ placing_hedge' = s.placing_hedge
    /\ order_outcome' = s.order_outcome
    /\ tracked' = s.tracked
    /\ lock' = s.lock
    /\ task' = s.task
    /\ orders' = Forget(s)
    /\ finalDone' = s.finalDone
    /\ fill_calls' = s.fill_calls
    /\ lastFill' = s.lastFill

\* Task 0 is the order-book callback; the others are the _step tasks on_fill creates.
Tasks == DOMAIN task
FillTasks == Tasks \ {0}

IdleTask ==
    [pc |-> "idle", phase |-> "normal", long_side |-> "YES",
     yes_trap |-> 0, no_trap |-> 0, oid |-> 0, h_price |-> 0, h_size |-> 0]

NoFill == [id |-> 0, type |-> "NONE", reported |-> "", price |-> 0, size |-> 0,
           status |-> "", order_event |-> "", event_id |-> 0]

\* Comparisons of a quantity (in quantity units) with the code's literals.
LessThan001(q) == 100 * q < QtyScale                        \* q < 0.01
MoreThan001(q) == 100 * q > QtyScale                        \* q > 0.01
LessThan05(q) == 2 * q < QtyScale                           \* q < 0.5
BelowHedgeThreshold(q) == 10 * q < MinHedgeThresholdTenths * QtyScale
BelowMinSize(q) == 10 * q < MinPolymarketSizeTenths * QtyScale
MinPolymarketSize == (MinPolymarketSizeTenths * QtyScale) \div 10

---------------------------------------------------------------------------
(* The exchange client, polymarket_client.py, and the order bookkeeping *)

\* PolymarketClient.place_limit_order: the exchange accepts the order (it rests from
\* now on) or refuses it; the result reaches the caller when it resumes.
place_limit_order(s, t, kind, outcome, side, price, size, time_in_force, ok) ==
    IF ok /\ Len(s.orders) < orderBudget
    THEN [s EXCEPT
            !.orders = Append(@, [kind |-> kind, outcome |-> outcome, side |-> side,
                                  time_in_force |-> time_in_force, price |-> price,
                                  size |-> size, remaining |-> size, resting |-> TRUE,
                                  matched |-> 0]),
            !.task[t].oid = Len(s.orders) + 1]
    ELSE [s EXCEPT !.task[t].oid = 0,
                   !.faults = IF Len(s.orders) < orderBudget THEN @ + 1 ELSE @]

\* PolymarketClient.cancel_order as the exchange sees it: the order leaves the book,
\* or the call fails and it stays.
cancel_order(s, id, cok) ==
    IF cok THEN [s EXCEPT !.orders[id].resting = FALSE]
    ELSE [s EXCEPT !.faults = IF s.orders[id].resting THEN @ + 1 ELSE @]

\* The engine suspends in client.cancel_order(id).
cancel_call(s, t, id, pc) ==
    [s EXCEPT !.task[t].oid = id, !.task[t].pc = pc]

_remember_order(s, id, outcome) ==
    [s EXCEPT !.order_outcome = {p \in @ : p[1] # id} \cup {<<id, outcome>>}]

_forget_order(s, id) ==
    [s EXCEPT !.order_outcome = {p \in @ : p[1] # id}]

_track_order(s, id) == [s EXCEPT !.tracked = @ \cup {id}]

_untrack_order(s, id) == _forget_order([s EXCEPT !.tracked = @ \ {id}], id)

_switch_mode(s, new_mode) == [s EXCEPT !.mode = new_mode]

\* The coroutine returns: _step is over, and on_orderbook leaves the lock.
finish(s, t) ==
    [s EXCEPT !.task[t] = IdleTask,
              !.lock = IF t = 0 THEN -1 ELSE @,
              !.finalDone = @ \/ s.task[t].phase = "final"]

---------------------------------------------------------------------------
(* StrategyEngine._mode_open *)

\* the finally clause of _mode_open
open_finally(s, t) == finish([s EXCEPT !.placing_traps = FALSE], t)

\* _place_trap up to its suspension in place_limit_order
_place_trap_call(s, t, outcome, price, ok) ==
    [place_limit_order(s, t, "trap", outcome, "BUY", ClampRound(RInt(price)),
                       trap_order_size, "GTC", ok)
        EXCEPT !.task[t].pc = IF outcome = "YES" THEN "open_yes_ret" ELSE "open_no_ret",
               !.task[t].yes_trap = IF outcome = "YES" THEN @ ELSE 0,
               !.task[t].no_trap = IF outcome = "YES" THEN @ ELSE 0]

\* _place_trap after place_limit_order returned
_place_trap_ret(s, t, outcome) ==
    LET id == s.task[t].oid
    IN  IF id = 0 THEN s
        ELSE LET s1 == _remember_order(s, id, outcome)
                 s2 == IF outcome = "YES"
                       THEN [s1 EXCEPT !.trap_order_yes = id]
                       ELSE [s1 EXCEPT !.trap_order_no = id]
             IN  _track_order(s2, id)

\* An open_no that places the NO trap whether or not one is in the slot
open_no_Again(s, t, ok) ==
    IF s.task[t].no_trap # 0
    THEN _place_trap_call(s, t, "NO", s.task[t].no_trap, ok)
    ELSE open_finally(s, t)

\* "Place NO trap (only if we don't have one)"
open_no(s, t, ok) ==
    IF s.task[t].no_trap # 0 /\ s.trap_order_no = 0
    THEN _place_trap_call(s, t, "NO", s.task[t].no_trap, ok)
    ELSE open_finally(s, t)

\* _mode_open from its first line to its first suspension
_mode_open(s, t, ct, ok) ==
    LET s1 == [_switch_mode(s, "OPEN") EXCEPT !.hedge_order = 0, !.placing_hedge = FALSE]
    IN  IF s1.trap_order_yes # 0 /\ s1.trap_order_no # 0 THEN finish(s1, t)
        ELSE IF s1.placing_traps THEN finish(s1, t)
        ELSE LET s2 == [s1 EXCEPT !.placing_traps = TRUE]
             IN  IF s2.orderbook_yes = -1 \/ s2.orderbook_no = -1
                 THEN open_finally(s2, t)
                 ELSE LET yes_ask == s2.orderbook_yes
                          no_ask == s2.orderbook_no
                          yes_trap == compute_trap_price(ct, no_ask, yes_ask)
                          no_trap == compute_trap_price(ct, yes_ask, no_ask)
                          s3 == [s2 EXCEPT !.task[t].yes_trap = yes_trap,
                                           !.task[t].no_trap = no_trap]
                      IN  IF yes_trap = 0 /\ no_trap = 0 THEN open_finally(s2, t)
                          ELSE IF yes_trap # 0 /\ s3.trap_order_yes = 0
                               THEN _place_trap_call(s3, t, "YES", yes_trap, ok)
                               ELSE open_no(s3, t, ok)

---------------------------------------------------------------------------
(* StrategyEngine._mode_hedge *)

\* the finally clause of _mode_hedge
hedge_finally(s, t) == finish([s EXCEPT !.placing_hedge = FALSE], t)

\* _place_hedge from the place_limit_order call on
_place_hedge_call(s, t, outcome, price, size, ok) ==
    [place_limit_order(s, t, "hedge", outcome, "BUY", price, size, "GTC", ok)
        EXCEPT !.task[t].pc = "hedge_ret"]

\* _place_hedge up to its first suspension
_place_hedge(s, t, outcome, price0, size, ok) ==
    LET price == ClampRound(RInt(price0))
    IN  IF s.hedge_order # 0
        THEN IF s.orders[s.hedge_order].outcome = outcome
                /\ 2 * Abs(s.orders[s.hedge_order].price - price) < Tick
             THEN hedge_finally(s, t)
             ELSE \* _cancel_hedge: clear the slot, then suspend in cancel_order
                  cancel_call([s EXCEPT !.hedge_order = 0,
                                        !.task[t].h_price = price,
                                        !.task[t].h_size = size],
                              t, s.hedge_order, "hedge_ch")
        ELSE _place_hedge_call(s, t, outcome, price, size, ok)

\* A hedge_calc that sizes the hedge at |dq| without the exchange minimum
hedge_calc_NoMinimum(s, t, ct, ok) ==
    LET long_side == s.task[t].long_side
        i == s.inv
        qty == Abs(delta_q(i))
    IN  IF s.orderbook_yes = -1 \/ s.orderbook_no = -1 THEN hedge_finally(s, t)
        ELSE IF long_side = "YES"
             THEN _place_hedge(s, t, "NO", compute_hedge_price(ct, mu_yes(i)), qty, ok)
             ELSE _place_hedge(s, t, "YES", compute_hedge_price(ct, mu_no(i)), qty, ok)

\* _mode_hedge after the traps are cancelled: size and price of the hedge
hedge_calc(s, t, ct, ok) ==
    LET long_side == s.task[t].long_side
        i == s.inv
        qty0 == Abs(delta_q(i))
        qty == IF BelowMinSize(qty0) THEN MinPolymarketSize ELSE qty0
    IN  IF s.orderbook_yes = -1 \/ s.orderbook_no = -1 THEN hedge_finally(s, t)
        ELSE IF long_side = "YES"
             THEN _place_hedge(s, t, "NO", compute_hedge_price(ct, mu_yes(i)), qty, ok)
             ELSE _place_hedge(s, t, "YES", compute_hedge_price(ct, mu_no(i)), qty, ok)

\* "Cancel traps on both sides while hedging": the NO trap
hedge_cancel_no(s, t, ct, ok) ==
    IF s.trap_order_no # 0
    THEN cancel_call([s EXCEPT !.trap_order_no = 0], t, s.trap_order_no, "hedge_cn")
    ELSE hedge_calc(s, t, ct, ok)

\* "Cancel traps on both sides while hedging": the YES trap
hedge_cancel_yes(s, t, ct, ok) ==
    IF s.trap_order_yes # 0
    THEN cancel_call([s EXCEPT !.trap_order_yes = 0], t, s.trap_order_yes, "hedge_cy")
    ELSE hedge_cancel_no(s, t, ct, ok)

\* _mode_hedge from its first line to its first suspension
_mode_hedge(s, t, long_side, ct, ok) ==
    IF s.hedge_order # 0 THEN finish(s, t)
    ELSE IF s.placing_hedge THEN finish(s, t)
    ELSE LET new_mode == IF long_side = "YES" THEN "HEDGE_YES" ELSE "HEDGE_NO"
             s1 == [_switch_mode(s, new_mode) EXCEPT !.placing_hedge = TRUE,
                                                     !.task[t].long_side = long_side]
         IN  hedge_cancel_yes(s1, t, ct, ok)

---------------------------------------------------------------------------
(* StrategyEngine._final_exit *)

\* _cancel_hedge as called by _final_exit
exit_cancel_hedge(s, t) ==
    IF s.hedge_order # 0
    THEN cancel_call([s EXCEPT !.hedge_order = 0], t, s.hedge_order, "exit_ch")
    ELSE finish(s, t)

exit_cancel_no(s, t) ==
    IF s.trap_order_no # 0
    THEN cancel_call([s EXCEPT !.trap_order_no = 0], t, s.trap_order_no, "exit_cn")
    ELSE exit_cancel_hedge(s, t)

exit_cancel_yes(s, t) ==
    IF s.trap_order_yes # 0
    THEN cancel_call([s EXCEPT !.trap_order_yes = 0], t, s.trap_order_yes, "exit_cy")
    ELSE exit_cancel_no(s, t)

_final_exit(s, t) ==
    IF s.mode = "STOPPED" THEN finish(s, t)
    ELSE exit_cancel_yes(_switch_mode(s, "STOPPED"), t)

---------------------------------------------------------------------------
(* StrategyEngine._step, from its first line to its first suspension *)

\* A _step without the expiry-buffer branch: the tick goes on to the mode dispatch.
_step_NoBuffer(s0, t, ph, ct, ok) ==
    LET s == [s0 EXCEPT !.task[t].phase = ph, !.task[t].pc = "running"]
        dq == delta_q(s.inv)
    IN  IF ph = "final" THEN _final_exit(s, t)
        ELSE IF exposure_exceeded(s.inv)
        THEN _mode_hedge(s, t, IF dq > 0 THEN "YES" ELSE "NO", ct, ok)
        ELSE LET s1 == IF LessThan001(Abs(dq))
                       THEN [s EXCEPT !.inv = lock_profit(@, ct)]
                       ELSE s
             IN  IF BelowHedgeThreshold(Abs(dq)) THEN _mode_open(s1, t, ct, ok)
                 ELSE IF dq > 0 THEN _mode_hedge(s1, t, "YES", ct, ok)
                 ELSE _mode_hedge(s1, t, "NO", ct, ok)

_step(s0, t, ph, ct, ok) ==
    LET s == [s0 EXCEPT !.task[t].phase = ph, !.task[t].pc = "running"]
        dq == delta_q(s.inv)
    IN  IF ph = "final" THEN _final_exit(s, t)
        ELSE IF ph = "buffer"
        THEN IF MoreThan001(Abs(dq))
             THEN _mode_hedge(s, t, IF dq > 0 THEN "YES" ELSE "NO", ct, ok)
             ELSE finish(s, t)
        ELSE IF exposure_exceeded(s.inv)
        THEN _mode_hedge(s, t, IF dq > 0 THEN "YES" ELSE "NO", ct, ok)
        ELSE LET s1 == IF LessThan001(Abs(dq))
                       THEN [s EXCEPT !.inv = lock_profit(@, ct)]
                       ELSE s
             IN  IF BelowHedgeThreshold(Abs(dq)) THEN _mode_open(s1, t, ct, ok)
                 ELSE IF dq > 0 THEN _mode_hedge(s1, t, "YES", ct, ok)
                 ELSE _mode_hedge(s1, t, "NO", ct, ok)

---------------------------------------------------------------------------
(* StrategyEngine.on_fill and the fill stream, user_channel.py *)

\* An on_fill that books a fill of an order that is in no slot.
order_type_of_NoUnknown(s, order_id) ==
    IF s.trap_order_yes # 0 /\ s.trap_order_yes = order_id THEN "TRAP_YES"
    ELSE IF s.trap_order_no # 0 /\ s.trap_order_no = order_id THEN "TRAP_NO"
    ELSE "HEDGE"

\* The slot test at the head of on_fill.
order_type_of(s, order_id) ==
    IF s.trap_order_yes # 0 /\ s.trap_order_yes = order_id THEN "TRAP_YES"
    ELSE IF s.trap_order_no # 0 /\ s.trap_order_no = order_id THEN "TRAP_NO"
    ELSE IF s.hedge_order # 0 /\ s.hedge_order = order_id THEN "HEDGE"
    ELSE "UNKNOWN"

\* An on_fill that has no intent map to consult.
mapped_outcome_of_None(s, order_id) == ""

\* self._order_outcome.get(order_id); "" stands for None.
mapped_outcome_of(s, order_id) ==
    IF \E p \in s.order_outcome : p[1] = order_id
    THEN (CHOOSE p \in s.order_outcome : p[1] = order_id)[2]
    ELSE ""

\* loop.call_soon_threadsafe(create_task(self._step())): a new task, not yet started.
schedule_step(s) ==
    LET free == {t \in FillTasks : s.task[t].pc = "idle"}
        t == CHOOSE x \in free : \A y \in free : x <= y
    IN  [s EXCEPT !.task[t].pc = "start"]

\* An on_fill that leaves the filled order in its slot.
on_fill_KeepSlot(s00, order_id, outcome0, price, size) ==
    LET s == [s00 EXCEPT !.fill_calls[order_id] = Min(@ + 1, 2)]
        order_type == order_type_of(s, order_id)
    IN  IF order_type = "UNKNOWN"
        THEN [s EXCEPT !.lastFill = [@ EXCEPT !.id = order_id, !.type = "UNKNOWN",
                                              !.reported = outcome0,
                                              !.price = price, !.size = size]]
        ELSE LET mapped == mapped_outcome_of(s, order_id)
                 outcome == IF mapped # "" /\ outcome0 # mapped THEN mapped ELSE outcome0
                 s1 == [s EXCEPT !.inv = record_fill(@, outcome, "BUY", price, size)]
             IN  schedule_step([s1 EXCEPT !.lastFill =
                                    [@ EXCEPT !.id = order_id, !.type = order_type,
                                              !.reported = outcome0,
                                              !.price = price, !.size = size]])

on_fill(s00, order_id, outcome0, price, size) ==
    LET s == [s00 EXCEPT !.fill_calls[order_id] = Min(@ + 1, 2)]
        order_type == order_type_of(s, order_id)
    IN  IF order_type = "UNKNOWN"
        THEN [s EXCEPT !.lastFill = [@ EXCEPT !.id = order_id, !.type = "UNKNOWN",
                                              !.reported = outcome0,
                                              !.price = price, !.size = size]]
        ELSE LET mapped == mapped_outcome_of(s, order_id)
                 outcome == IF mapped # "" /\ outcome0 # mapped THEN mapped ELSE outcome0
                 s1 == [s EXCEPT !.inv = record_fill(@, outcome, "BUY", price, size)]
                 s2 == IF order_type = "TRAP_YES" THEN [s1 EXCEPT !.trap_order_yes = 0]
                       ELSE IF order_type = "TRAP_NO" THEN [s1 EXCEPT !.trap_order_no = 0]
                       ELSE [s1 EXCEPT !.hedge_order = 0]
                 s3 == _forget_order(s2, order_id)
                 s4 == IF order_type = "HEDGE" /\ LessThan05(Abs(delta_q(s3.inv)))
                       THEN [s3 EXCEPT !.inv = lock_profit(@, c_target)]
                       ELSE s3
             IN  schedule_step([s4 EXCEPT !.lastFill =
                                    [@ EXCEPT !.id = order_id, !.type = order_type,
                                              !.reported = outcome0,
                                              !.price = price, !.size = size]])

\* A _process_fill that leaves the id in the tracked set.
_process_fill_KeepTracked(s, order_id, asset, price, size, status) ==
    IF asset \notin Outcomes THEN s
    ELSE [on_fill(s, order_id, asset, price, size) EXCEPT !.lastFill.status = status]

\* UserChannelManager._process_fill for an id found in the tracked set; asset is the
\* outcome of the asset id of the message, "" for an asset id of another market.
_process_fill(s, order_id, asset, price, size, status) ==
    IF asset \notin Outcomes THEN s
    ELSE [on_fill([s EXCEPT !.tracked = @ \ {order_id}], order_id, asset, price, size)
             EXCEPT !.lastFill.status = status]

\* The loop of _handle_trade over maker_orders.  An entry is a record with the key
\* order_id and, when the message carries them, asset_id, price, matched_amount, size.
RECURSIVE maker_orders_loop(_, _, _, _, _, _)
maker_orders_loop(s, makers, asset, price, size, status) ==
    IF makers = <<>> THEN s
    ELSE LET maker == Head(makers)
             maker_order_id == DictGet(maker, "order_id", 0)
             maker_price == DictGet(maker, "price", price)
             maker_size == DictGet(maker, "matched_amount", DictGet(maker, "size", size))
             maker_asset_id == DictGet(maker, "asset_id", asset)
             s1 == IF maker_order_id \in s.tracked
                   THEN _process_fill(s, maker_order_id, maker_asset_id, maker_price,
                                      maker_size, status)
                   ELSE s
         IN  maker_orders_loop(s1, Tail(makers), asset, price, size, status)

\* UserChannelManager._handle_trade for a trade message: its status, its taker order
\* id (0 = an order of somebody else), its maker_orders entries and its trade-level
\* asset (as an outcome), price and size (0 when the message has none).
_handle_trade(s, status, taker_order_id, makers, asset, price, size) ==
    IF status \notin {"MATCHED", "MINED", "CONFIRMED"} THEN s
    ELSE IF price <= 0 \/ size <= 0 THEN s
    ELSE LET s1 == IF taker_order_id \in s.tracked
                   THEN _process_fill(s, taker_order_id, asset, price, size, status)
                   ELSE s
         IN  maker_orders_loop(s1, makers, asset, price, size, status)

\* A _handle_order_update that reports the matched size of a PLACEMENT or UPDATE event
\* as a fill.
_handle_order_update_ReportsMatch(s, order_id, update_type, size_matched, asset, price) ==
    IF order_id \notin s.tracked THEN s
    ELSE IF update_type = "CANCELLATION" THEN [s EXCEPT !.tracked = @ \ {order_id}]
    ELSE IF update_type \in {"PLACEMENT", "UPDATE"} /\ size_matched > 0
    THEN _process_fill(s, order_id, asset, price, size_matched, "MATCHED")
    ELSE s

\* UserChannelManager._handle_order_update for an order event: its order id, its type,
\* its size_matched, asset (as an outcome) and price (0 when the event has none).  The
\* matched size of a PLACEMENT or UPDATE event is only written to the log.
_handle_order_update(s, order_id, update_type, size_matched, asset, price) ==
    IF order_id \notin s.tracked THEN s
    ELSE IF update_type = "CANCELLATION" THEN [s EXCEPT !.tracked = @ \ {order_id}]
    ELSE s

---------------------------------------------------------------------------
(* OrderBookManager: the connection of the order-book stream.

   ws         self._ws: "none", "open", or "closed" (a connection that was lost)
   starter    start() is inside its own _connect(): "idle" or "connecting"
   reconnect  self._reconnect_task: "none", "sleeping" (in asyncio.sleep),
              "connecting" (inside _connect()), "done"
   loop       a _message_loop task is reading the connection
   subscribed the subscription to both asset ids was sent on the connection
   failures   failed connection attempts, failed subscriptions and disconnects
   messages   self._message_count *)

ObStopped ==
    [running |-> FALSE, ws |-> "none", starter |-> "idle", reconnect |-> "none",
     loop |-> FALSE, subscribed |-> FALSE, failures |-> 0, messages |-> 0]

\* After a start() whose connection and subscription succeeded.
ObConnected == [ObStopped EXCEPT !.running = TRUE, !.ws = "open", !.loop = TRUE,
                                 !.subscribed = TRUE]

\* OrderBookManager._schedule_reconnect, called by task `who` ("starter",
\* "reconnect" or "loop").  A reconnect task that calls it is itself
\* self._reconnect_task and is not done.
_schedule_reconnect(o, who) ==
    IF ~o.running THEN o
    ELSE IF o.reconnect \in {"sleeping", "connecting"} THEN o
    ELSE [o EXCEPT !.reconnect = "sleeping"]

\* The task `who` leaves _connect().
connect_done(o, who) ==
    IF who = "starter" THEN [o EXCEPT !.starter = "idle"]
    ELSE [o EXCEPT !.reconnect = "done"]

\* OrderBookManager._connect from the return of websockets.connect on: the
\* connection is made or not (connected), the subscription is sent or not (sent).
_connect(o, who, connected, sent) ==
    IF ~connected
    THEN connect_done([_schedule_reconnect(o, who) EXCEPT !.failures = @ + 1], who)
    ELSE LET o1 == [o EXCEPT !.ws = "open", !.subscribed = FALSE, !.loop = FALSE]
         IN  IF ~sent
             THEN connect_done([_schedule_reconnect(o1, who) EXCEPT !.failures = @ + 1],
                               who)
             ELSE connect_done([o1 EXCEPT !.subscribed = TRUE, !.loop = TRUE], who)

\* The wait of the reconnect task is over.
reconnect_wakes(o) ==
    IF o.running THEN [o EXCEPT !.reconnect = "connecting"]
    ELSE [o EXCEPT !.reconnect = "done"]

\* OrderBookManager._message_loop when the connection is lost: the iteration
\* raises ConnectionClosed (raised), or ends without an exception after a
\* normal close.
_message_loop_closed(o, raised) ==
    LET o1 == [o EXCEPT !.ws = "closed", !.loop = FALSE, !.subscribed = FALSE,
                        !.failures = @ + 1]
    IN  IF raised /\ o1.running THEN _schedule_reconnect(o1, "loop") ELSE o1

\* OrderBookManager.stop
ob_stop(o) ==
    [o EXCEPT !.running = FALSE,
              !.reconnect = "none",
              !.ws = "none", !.loop = FALSE, !.subscribed = FALSE]

\* run_single_market before the session ends
NoMarketOrder ==
    [outcome |-> "", side |-> "", size |-> 0, price |-> 0, order_type |-> ""]

\* market_order is the place_market_order call of flatten_position, best_bid the
\* best bid it read (0 = none), sold whether the call returned an order
SessionRunning ==
    [pc |-> "running", user_channel |-> TRUE, cancel_all |-> FALSE, flatten |-> FALSE,
     market_order |-> NoMarketOrder, best_bid |-> 0, sold |-> FALSE]

---------------------------------------------------------------------------
(* Initial state: after StrategyEngine.start() *)

InitTasks(budget, ct, steps) ==
    /\ phase = "normal"
    /\ c_target = ct
    /\ mode = "OPEN"
    /\ inv = EmptyInventory
    /\ trap_order_yes = 0
    /\ trap_order_no = 0
    /\ hedge_order = 0
    /\ orderbook_yes = -1
    /\ orderbook_no = -1
    /\ placing_traps = FALSE
    /\ placing_hedge = FALSE
    /\ order_outcome = {}
    /\ tracked = {}
    /\ lock = -1
    /\ task = [t \in 0..steps |-> IdleTask]
    /\ orders = <<>>
    /\ orderBudget = budget
    /\ faults = 0
    /\ finalDone = FALSE
    /\ fill_calls = [id \in 1..budget |-> 0]
    /\ ob = ObConnected
    /\ session = SessionRunning
    /\ lastFill = NoFill

InitFor(budget, ct) == InitTasks(budget, ct, MaxFillTasks)

InitWith(budget) == InitFor(budget, CTargetDefault)

Init == InitWith(MaxOrders)

\* Every transition that is not an on_fill call.
ApplyStep(s) == Apply([s EXCEPT !.lastFill = NoFill])

---------------------------------------------------------------------------
(* Actions *)

\* The wall clock enters the expiry buffer, then the final-exit window.
ClockAdvance ==
    /\ phase # "final"
    /\ phase' = IF phase = "normal" THEN "buffer" ELSE "final"
    /\ lastFill' = NoFill
    /\ UNCHANGED <<c_target, mode, inv, trap_order_yes, trap_order_no, hedge_order,
                   orderbook_yes, orderbook_no, placing_traps, placing_hedge,
                   order_outcome, tracked, lock, task, orders, orderBudget, faults,
                   finalDone, fill_calls, ob, session>>

\* StrategyEngine.on_orderbook: the book stream delivers a snapshot; the callback takes
\* the lock, stores the book and runs _step up to its first suspension.
OnOrderbook(outcome, ask, ok) ==
    /\ task[0].pc = "idle"
    /\ lock = -1
    /\ LET s0 == IF outcome = "YES"
                 THEN [St EXCEPT !.lock = 0, !.orderbook_yes = ask]
                 ELSE [St EXCEPT !.lock = 0, !.orderbook_no = ask]
       IN  IF s0.orderbook_yes = -1 \/ s0.orderbook_no = -1
           THEN ApplyStep([s0 EXCEPT !.lock = -1])
           ELSE ApplyStep(_step(s0, 0, phase, c_target, ok))
    /\ UNCHANGED <<phase, c_target, orderBudget, ob, session>>

\* A _step task created by on_fill starts to run (outside the lock).
FillStep(t, ok) ==
    /\ t \in FillTasks
    /\ task[t].pc = "start"
    /\ ApplyStep(_step(St, t, phase, c_target, ok))
    /\ UNCHANGED <<phase, c_target, orderBudget, ob, session>>

\* place_limit_order returns to the coroutine that awaits it, which runs on to its
\* next suspension or to its end.
PlaceReturns(t, ok) ==
    /\ task[t].pc \in {"open_yes_ret", "open_no_ret", "hedge_ret"}
    /\ LET s == St
           id == s.task[t].oid
       IN  CASE task[t].pc = "open_yes_ret" ->
                  ApplyStep(open_no(_place_trap_ret(s, t, "YES"), t, ok))
             [] task[t].pc = "open_no_ret" ->
                  ApplyStep(open_finally(_place_trap_ret(s, t, "NO"), t))
             [] task[t].pc = "hedge_ret" ->
                  IF id # 0
                  THEN ApplyStep(hedge_finally(
                         _track_order(
                           [_remember_order(s, id, Opposite(s.task[t].long_side))
                              EXCEPT !.hedge_order = id], id), t))
                  ELSE ApplyStep(hedge_finally(s, t))
    /\ UNCHANGED <<phase, c_target, orderBudget, ob, session>>

\* cancel_order returns to the coroutine that awaits it: the exchange has taken the
\* order off the book (cok) or not; the coroutine untracks the id and runs on.
CancelReturns(t, cok, ok) ==
    /\ task[t].pc \in {"hedge_cy", "hedge_cn", "hedge_ch", "exit_cy", "exit_cn", "exit_ch"}
    /\ LET id == task[t].oid
           s == _untrack_order(cancel_order(St, id, cok), id)
       IN  CASE task[t].pc = "hedge_cy" -> ApplyStep(hedge_cancel_no(s, t, c_target, ok))
             [] task[t].pc = "hedge_cn" -> ApplyStep(hedge_calc(s, t, c_target, ok))
             [] task[t].pc = "hedge_ch" ->
                  ApplyStep(_place_hedge_call(s, t, Opposite(s.task[t].long_side),
                                              s.task[t].h_price, s.task[t].h_size, ok))
             [] task[t].pc = "exit_cy" -> ApplyStep(exit_cancel_no(s, t))
             [] task[t].pc = "exit_cn" -> ApplyStep(exit_cancel_hedge(s, t))
             [] task[t].pc = "exit_ch" -> ApplyStep(finish(s, t))
    /\ UNCHANGED <<phase, c_target, orderBudget, ob, session>>

\* The exchange matches `size` of a resting order at its limit price and the fill
\* stream receives the trade event, which reports `outcome` for it and names the
\* order as its taker order, among its maker orders, or both.
MatchAs(id, size, outcome, taker, makers) ==
    /\ id \in DOMAIN orders
    /\ orders[id].resting
    /\ \/ size = orders[id].remaining
       \/ size \in FillSizes /\ orders[id].matched = 0 /\ size < orders[id].remaining
    /\ (id \in tracked /\ order_type_of(St, id) # "UNKNOWN")
          => \E t \in FillTasks : task[t].pc = "idle"
    /\ LET s0 == [St EXCEPT !.orders[id].remaining = @ - size,
                            !.orders[id].matched = size,
                            !.faults = IF size < orders[id].remaining THEN @ + 1 ELSE @,
                            !.orders[id].resting = (orders[id].remaining - size > 0),
                            !.lastFill = NoFill]
       IN  Apply(_handle_trade(s0, "MATCHED", taker, makers, outcome,
                               orders[id].price, size))
    /\ UNCHANGED <<phase, c_target, orderBudget, ob, session>>

\* The trade event names the engine's order among its maker orders.
Match(id, size, outcome) == MatchAs(id, size, outcome, 0, <<[order_id |-> id]>>)

Next ==
    \/ ClockAdvance
    \/ \E o \in Outcomes : \E a \in Asks(o), ok \in BOOLEAN : OnOrderbook(o, a, ok)
    \/ \E t \in FillTasks, ok \in BOOLEAN : FillStep(t, ok)
    \/ \E t \in Tasks, ok \in BOOLEAN : PlaceReturns(t, ok)
    \/ \E t \in Tasks, cok \in BOOLEAN, ok \in BOOLEAN : CancelReturns(t, cok, ok)
    \/ \E id \in DOMAIN orders : \E size \in FillSizes \cup {orders[id].remaining},
          o \in Outcomes : Match(id, size, o)

Spec == Init /\ [][Next]_vars

---------------------------------------------------------------------------
(* Sequential rounds: no exchange irregularity, every order matched in full and
   reported with its own outcome, and fills and book updates delivered only while
   no tick is pending or in progress. *)

Quiet == \A t \in Tasks : task[t].pc = "idle"

InitRounds == InitWith(MaxRoundOrders)

NextRounds ==
    \/ \E o \in Outcomes, a \in RoundAsks : Quiet /\ OnOrderbook(o, a, TRUE)
    \/ \E t \in FillTasks : FillStep(t, TRUE)
    \/ \E t \in Tasks : PlaceReturns(t, TRUE)
    \/ \E t \in Tasks : CancelReturns(t, TRUE, TRUE)
    \/ \E id \in DOMAIN orders :
          Quiet /\ Match(id, orders[id].remaining, orders[id].outcome)

SpecRounds == InitRounds /\ [][NextRounds]_vars

---------------------------------------------------------------------------
(* The ledger on its own: any sequence of record_fill (BUY or SELL), lock_profit
   and flatten_position, from the empty ledger. *)

\* Fill prices 0.40 and 0.58, fill sizes 2.5 and 10 shares.
LedgerPrices == {40 * Tick, 58 * Tick}
LedgerSizes == {5, 10 * QtyScale}

\* StrategyEngine.flatten_position as the ledger sees it: the market SELL of the
\* unhedged quantity is accepted (ok) or not.
flatten_position(i, ok) ==
    LET dq == delta_q(i)
    IN  IF LessThan001(Abs(dq)) THEN i
        ELSE IF ~ok THEN i
        ELSE IF dq > 0 THEN [i EXCEPT !.q_yes = @ - dq]
        ELSE [i EXCEPT !.q_no = @ - Abs(dq)]

LedgerUnchanged ==
    UNCHANGED <<phase, c_target, mode, trap_order_yes, trap_order_no, hedge_order,
                orderbook_yes, orderbook_no, placing_traps, placing_hedge,
                order_outcome, tracked, lock, task, orders, orderBudget, faults,
                finalDone, fill_calls, ob, session, lastFill>>

LedgerFill(outcome, side, price, size) ==
    /\ inv.total_trades < MaxLedgerFills
    /\ inv' = record_fill(inv, outcome, side, price, size)
    /\ LedgerUnchanged

LedgerLock ==
    /\ inv' = lock_profit(inv, c_target)
    /\ LedgerUnchanged

LedgerFlatten(ok) ==
    /\ inv' = flatten_position(inv, ok)
    /\ LedgerUnchanged

NextLedger ==
    \/ \E o \in Outcomes, side \in {"BUY", "SELL"}, p \in LedgerPrices,
          z \in LedgerSizes : LedgerFill(o, side, p, z)
    \/ LedgerLock
    \/ \E ok \in BOOLEAN : LedgerFlatten(ok)

SpecLedger == Init /\ [][NextLedger]_vars

---------------------------------------------------------------------------
(* The ledger in floating point.  The code keeps quantities and costs in Python
   floats, so every product, quotient, sum and difference of record_fill is
   rounded to the nearest representable value, ties to even.  The format here
   has a significand of MantissaBits bits instead of the 53 of a Python float;
   exponents are unbounded.  Quantities (multiples of half a share) are exact. *)

MantissaBits == 8

RECURSIVE Pow2(_)
Pow2(k) == IF k = 0 THEN 1 ELSE 2 * Pow2(k - 1)

\* n / d = f * 2^e with 2^(MantissaBits - 1) <= f < 2^MantissaBits, as <<n', d', e>>
RECURSIVE FlScale(_, _, _)
FlScale(n, d, e) ==
    IF n >= Pow2(MantissaBits) * d THEN FlScale(n, 2 * d, e + 1)
    ELSE IF n < Pow2(MantissaBits - 1) * d THEN FlScale(2 * n, d, e - 1)
    ELSE <<n, d, e>>

\* The float nearest to the rational x, ties to the even significand.
Fl(x) ==
    IF x.n = 0 THEN x
    ELSE LET s == FlScale(Abs(x.n), x.d, 0)
             k == s[1] \div s[2]
             rem == s[1] - k * s[2]
             m == IF 2 * rem > s[2] THEN k + 1
                  ELSE IF 2 * rem < s[2] THEN k
                  ELSE IF k % 2 = 0 THEN k ELSE k + 1
             sign == IF x.n < 0 THEN -1 ELSE 1
         IN  IF s[3] >= 0 THEN Rat(sign * m * Pow2(s[3]), 1)
             ELSE Rat(sign * m, Pow2(-s[3]))

\* The float of a price literal such as 0.58, in dollars.
FlPrice(price) == Fl(Rat(price, One))

\* InventoryState.record_fill in floating point; costs in dollars per quantity unit.
record_fill_float(i, outcome, side, price, size) ==
    LET cost == Fl(RMul(FlPrice(price), RInt(size)))
        i0 == [i EXCEPT !.total_trades = @ + 1,
                        !.total_volume = Fl(RAdd(@, cost))]
        sell(c, q) == LET avg == Fl(RDivInt(c, q))
                      IN  Fl(RSub(c, Fl(RMul(avg, RInt(Min(size, q))))))
    IN  IF outcome = "YES"
        THEN IF side = "BUY"
             THEN [i0 EXCEPT !.c_yes = Fl(RAdd(@, cost)), !.q_yes = @ + size]
             ELSE IF i0.q_yes > 0
                  THEN [i0 EXCEPT !.c_yes = sell(@, i0.q_yes),
                                  !.q_yes = Max(0, @ - size)]
                  ELSE i0
        ELSE IF side = "BUY"
             THEN [i0 EXCEPT !.c_no = Fl(RAdd(@, cost)), !.q_no = @ + size]
             ELSE IF i0.q_no > 0
                  THEN [i0 EXCEPT !.c_no = sell(@, i0.q_no),
                                  !.q_no = Max(0, @ - size)]
                  ELSE i0

\* Fill prices 0.01, 0.40 and 0.58; fill sizes 1, 10 and 11 shares.
FloatPrices == {1 * Tick, 40 * Tick, 58 * Tick}
FloatSizes == {1 * QtyScale, 10 * QtyScale, 11 * QtyScale}

FloatFill(outcome, side, price, size) ==
    /\ inv.total_trades < MaxLedgerFills
    /\ inv' = record_fill_float(inv, outcome, side, price, size)
    /\ LedgerUnchanged

NextFloat ==
    \E o \in Outcomes, side \in {"BUY", "SELL"}, p \in FloatPrices,
       z \in FloatSizes : FloatFill(o, side, p, z)

SpecFloat == Init /\ [][NextFloat]_vars

---------------------------------------------------------------------------
(* Quoting under other targets: the engine started with a c_target taken from
   CTargets (C_TARGET is any value of (0, 1), config.py validate), book updates
   with asks at the edges of the band and inside it, no fills and no exchange
   irregularity. *)

\* c_target 0.98, 0.42 and 0.4125
CTargets == {CTargetDefault, 42 * Tick, 41 * Tick + 1}

\* best asks 0.40, 0.41 and 0.60
QuoteAsks == {40 * Tick, 41 * Tick, 60 * Tick}

InitQuote == \E ct \in CTargets : InitFor(MaxOrders, ct)

NextQuote ==
    \/ \E o \in Outcomes, a \in QuoteAsks : OnOrderbook(o, a, TRUE)
    \/ \E t \in Tasks : PlaceReturns(t, TRUE)

SpecQuote == InitQuote /\ [][NextQuote]_vars

---------------------------------------------------------------------------
(* The fill stream under repeated reports: every trade is reported with status
   MATCHED and may be reported again (MINED, CONFIRMED, or a status the stream
   does not handle); a message names the engine's order as taker, as maker, as
   both, or twice among the makers; its asset id is the YES token, the NO token
   or another one.  Exchange calls succeed. *)

\* <<taker_order_id, maker_orders>> of the messages that name order id
Roles(id) ==
    LET maker == [order_id |-> id]
    IN  {<<id, <<>>>>, <<0, <<maker>>>>, <<id, <<maker>>>>, <<0, <<maker, maker>>>>}

LaterStatuses == {"MINED", "CONFIRMED", "FAILED"}

\* Price and size of a later report.  An order the model no longer keeps is in
\* no slot, so the engine ignores its fill: one price and one size stand for all.
ReportPrices(id) == IF orders[id] = GoneOrder THEN {range_min} ELSE {orders[id].price}
ReportSizes(id) == IF orders[id] = GoneOrder THEN {trap_order_size} ELSE {orders[id].matched}

\* A later report of the last trade of order id.  The exchange state does not
\* change.
TradeReport(id, status, taker, makers, asset, price, size) ==
    /\ id \in DOMAIN orders
    /\ orders[id].matched # 0 \/ orders[id] = GoneOrder
    /\ price \in ReportPrices(id)
    /\ size \in ReportSizes(id)
    /\ (id \in tracked /\ order_type_of(St, id) # "UNKNOWN")
          => \E t \in FillTasks : task[t].pc = "idle"
    /\ Apply(_handle_trade([St EXCEPT !.lastFill = NoFill], status, taker, makers,
                           asset, price, size))
    /\ UNCHANGED <<phase, c_target, orderBudget, ob, session>>

NextStream ==
    \/ \E o \in Outcomes : \E a \in Asks(o) : OnOrderbook(o, a, TRUE)
    \/ \E t \in FillTasks : FillStep(t, TRUE)
    \/ \E t \in Tasks : PlaceReturns(t, TRUE)
    \/ \E t \in Tasks : CancelReturns(t, TRUE, TRUE)
    \/ \E id \in DOMAIN orders : \E size \in FillSizes \cup {orders[id].remaining},
          asset \in Outcomes \cup {""}, r \in Roles(id) :
             MatchAs(id, size, asset, r[1], r[2])
    \/ \E id \in DOMAIN orders : \E status \in LaterStatuses, r \in Roles(id),
          asset \in Outcomes \cup {""},
          price \in ReportPrices(id), size \in ReportSizes(id) :
             TradeReport(id, status, r[1], r[2], asset, price, size)

SpecStream == Init /\ [][NextStream]_vars

---------------------------------------------------------------------------
(* The order-book stream on its own: start, connection attempts that succeed or
   fail, lost connections, the reconnect task, messages, stop. *)

ObUnchanged ==
    UNCHANGED <<phase, c_target, mode, inv, trap_order_yes, trap_order_no, hedge_order,
                orderbook_yes, orderbook_no, placing_traps, placing_hedge,
                order_outcome, tracked, lock, task, orders, orderBudget, faults,
                finalDone, fill_calls, session, lastFill>>

\* OrderBookManager.start up to the websockets.connect call
ObStart ==
    /\ ~ob.running /\ ob.starter = "idle"
    /\ ob' = [ob EXCEPT !.running = TRUE, !.starter = "connecting"]
    /\ ObUnchanged

\* websockets.connect returns to the task `who`, and the subscription is sent.
ObConnectReturns(who, connected, sent) ==
    /\ ob[who] = "connecting"
    /\ (~connected \/ ~sent) => ob.failures < MaxObFailures
    /\ ob' = _connect(ob, who, connected, sent)
    /\ ObUnchanged

ObReconnectWakes ==
    /\ ob.reconnect = "sleeping"
    /\ ob' = reconnect_wakes(ob)
    /\ ObUnchanged

\* The connection is lost while the message loop reads it.
ObDisconnect(raised) ==
    /\ ob.ws = "open" /\ ob.loop
    /\ ob.failures < MaxObFailures
    /\ ob' = _message_loop_closed(ob, raised)
    /\ ObUnchanged

\* A message arrives and is counted.
ObMessage ==
    /\ ob.ws = "open" /\ ob.loop /\ ob.running
    /\ ob.messages < MaxObMessages
    /\ ob' = [ob EXCEPT !.messages = @ + 1]
    /\ ObUnchanged

ObStop ==
    /\ ob.running /\ ob.starter = "idle" /\ ob.reconnect # "connecting"
    /\ ob' = ob_stop(ob)
    /\ ObUnchanged

NextOb ==
    \/ ObStart
    \/ \E who \in {"starter", "reconnect"}, connected \in BOOLEAN, sent \in BOOLEAN :
          ObConnectReturns(who, connected, sent)
    \/ ObReconnectWakes
    \/ \E raised \in BOOLEAN : ObDisconnect(raised)
    \/ ObMessage
    \/ ObStop

\* The event loop runs every task that can run: the reconnect task wakes up and a
\* connection attempt returns.
SpecOb ==
    /\ Init
    /\ [][NextOb]_vars
    /\ WF_vars(ObReconnectWakes)
    /\ WF_vars(\E who \in {"starter", "reconnect"}, connected \in BOOLEAN,
                  sent \in BOOLEAN : ObConnectReturns(who, connected, sent))

---------------------------------------------------------------------------
(* The end of a session, main.py run_single_market: the main loop leaves on the
   stop event or on expiry, then user_channel.stop() and engine.stop() run.  Book
   updates arrive while the order-book stream runs; trades are reported while the
   fill stream is open.  Exchange calls of the ticks succeed. *)

\* client.cancel_all_orders took effect: nothing rests on the exchange.
cancel_all_on_exchange(s) ==
    [s EXCEPT !.orders = [id \in DOMAIN s.orders |-> [s.orders[id] EXCEPT !.resting = FALSE]]]

\* StrategyEngine.cancel_all_orders from the return of the client call on.  The
\* client catches the errors of the exchange and returns 0, so the local
\* references are cleared whether the exchange cancelled (ok) or not.
cancel_all_orders(s, ok) ==
    [(IF ok THEN cancel_all_on_exchange(s) ELSE s) EXCEPT
        !.trap_order_yes = 0, !.trap_order_no = 0, !.hedge_order = 0,
        !.placing_traps = FALSE, !.placing_hedge = FALSE]

\* Best bids of the long side's book when flatten_position reads it: no bid (or no
\* book), 0.02, 0.04 and 0.45
Bids == {0, 2 * Tick, 4 * Tick, 45 * Tick}

\* PolymarketClient.place_market_order: the order the client posts (FOK, the price
\* rounded to two decimals)
place_market_order(outcome, side, size, price) ==
    [outcome |-> outcome, side |-> side, size |-> size,
     price |-> RoundTick(RInt(price)), order_type |-> "FOK"]

\* A flatten_position that sells at the best bid.
flatten_order_AtBid(i, bid) ==
    LET dq == delta_q(i)
        best_bid == IF bid # 0 THEN bid ELSE Tick
    IN  IF LessThan001(Abs(dq)) THEN NoMarketOrder
        ELSE place_market_order(IF dq > 0 THEN "YES" ELSE "NO", "SELL", Abs(dq), best_bid)

\* StrategyEngine.flatten_position up to its place_market_order call: the order it
\* sends, NoMarketOrder when the position is flat; bid is the best bid of the long
\* side's book, 0 when the book or the bid is missing
flatten_order(i, bid) ==
    LET dq == delta_q(i)
        best_bid == IF bid # 0 THEN bid ELSE Tick
        price == Max(Tick, best_bid - 2 * Tick)
    IN  IF LessThan001(Abs(dq)) THEN NoMarketOrder
        ELSE place_market_order(IF dq > 0 THEN "YES" ELSE "NO", "SELL", Abs(dq), price)

\* The main loop leaves: the stop event is set, or the market is in its final-exit
\* window.  user_channel.stop() runs and engine.stop() starts cancel_all_orders.
SessionExit(reason) ==
    /\ session.pc = "running"
    /\ reason = "expiry" => phase = "final"
    /\ session' = [session EXCEPT !.pc = "cancel_all", !.user_channel = FALSE]
    /\ lastFill' = NoFill
    /\ UNCHANGED <<phase, c_target, mode, inv, trap_order_yes, trap_order_no,
                   hedge_order, orderbook_yes, orderbook_no, placing_traps,
                   placing_hedge, order_outcome, tracked, lock, task, orders,
                   orderBudget, faults, finalDone, fill_calls, ob>>

\* client.cancel_all_orders returns; flatten_position starts and, with an
\* unhedged quantity, waits for its market order.
CancelAllReturns(ok, bid) ==
    /\ session.pc = "cancel_all"
    /\ LessThan001(Abs(delta_q(inv))) => bid = 0
    /\ Apply([cancel_all_orders(St, ok) EXCEPT !.lastFill = NoFill])
    /\ session' = [session EXCEPT
                      !.cancel_all = TRUE,
                      !.flatten = LessThan001(Abs(delta_q(inv))),
                      !.market_order = flatten_order(inv, bid),
                      !.best_bid = bid,
                      !.pc = IF LessThan001(Abs(delta_q(inv))) THEN "ob_stop"
                             ELSE "flatten"]
    /\ UNCHANGED <<phase, c_target, orderBudget, ob>>

\* place_market_order of flatten_position returns.
FlattenReturns(ok) ==
    /\ session.pc = "flatten"
    /\ Apply([St EXCEPT !.inv = flatten_position(@, ok), !.lastFill = NoFill])
    /\ session' = [session EXCEPT !.flatten = TRUE, !.sold = ok, !.pc = "ob_stop"]
    /\ UNCHANGED <<phase, c_target, orderBudget, ob>>

\* ob_manager.stop() and the last statement of StrategyEngine.stop
ObManagerStops ==
    /\ session.pc = "ob_stop"
    /\ Apply([St EXCEPT !.mode = "STOPPED", !.lastFill = NoFill])
    /\ ob' = ob_stop(ob)
    /\ session' = [session EXCEPT !.pc = "done"]
    /\ UNCHANGED <<phase, c_target, orderBudget>>

\* A trade of an engine order that the closed fill stream does not report.
MatchUnreported(id) ==
    /\ ~session.user_channel
    /\ id \in DOMAIN orders
    /\ orders[id].resting
    /\ Apply([St EXCEPT !.orders[id].remaining = 0, !.orders[id].resting = FALSE,
                        !.orders[id].matched = orders[id].remaining,
                        !.lastFill = NoFill])
    /\ UNCHANGED <<phase, c_target, orderBudget, ob, session>>

NextSession ==
    \/ ClockAdvance
    \/ \E o \in Outcomes, a \in RoundAsks : ob.running /\ OnOrderbook(o, a, TRUE)
    \/ \E t \in FillTasks : FillStep(t, TRUE)
    \/ \E t \in Tasks : PlaceReturns(t, TRUE)
    \/ \E t \in Tasks : CancelReturns(t, TRUE, TRUE)
    \/ \E id \in DOMAIN orders :
          session.user_channel /\ Match(id, orders[id].remaining, orders[id].outcome)
    \/ \E id \in DOMAIN orders : MatchUnreported(id)
    \/ \E reason \in {"stop_event", "expiry"} : SessionExit(reason)
    \/ \E ok \in BOOLEAN, bid \in Bids : CancelAllReturns(ok, bid)
    \/ \E ok \in BOOLEAN : FlattenReturns(ok)
    \/ ObManagerStops

SpecSession == Init /\ [][NextSession]_vars

---------------------------------------------------------------------------
(* Concurrent ticks: two _step tasks created by on_fill may exist next to the
   order-book callback.  The exchange may refuse a placement (and refuses every one
   beyond MaxConcurrentOrders); it performs every cancel and matches every order in
   full, reported with its own outcome. *)

InitConcurrent == InitTasks(MaxConcurrentOrders, CTargetDefault, MaxConcurrentSteps)

NextConcurrent ==
    \/ \E o \in Outcomes : \E a \in Asks(o), ok \in BOOLEAN : OnOrderbook(o, a, ok)
    \/ \E t \in FillTasks, ok \in BOOLEAN : FillStep(t, ok)
    \/ \E t \in Tasks, ok \in BOOLEAN : PlaceReturns(t, ok)
    \/ \E t \in Tasks, ok \in BOOLEAN : CancelReturns(t, TRUE, ok)
    \/ \E id \in DOMAIN orders : Match(id, orders[id].remaining, orders[id].outcome)

SpecConcurrent == InitConcurrent /\ [][NextConcurrent]_vars

---------------------------------------------------------------------------
(* Ticks under fair scheduling: the exchange performs every call, the clock stays
   outside the expiry windows, orders are matched in one or two trades reported with
   their own outcome.  The event loop runs every task that on_fill created and
   resumes every coroutine whose exchange call has returned; nothing obliges the book
   stream to deliver an update or the exchange to match an order. *)

NextFair ==
    \/ \E o \in Outcomes : \E a \in Asks(o) : OnOrderbook(o, a, TRUE)
    \/ \E t \in FillTasks : FillStep(t, TRUE)
    \/ \E t \in Tasks : PlaceReturns(t, TRUE)
    \/ \E t \in Tasks : CancelReturns(t, TRUE, TRUE)
    \/ \E id \in DOMAIN orders : \E size \in FillSizes \cup {orders[id].remaining} :
          Match(id, size, orders[id].outcome)

\* Task t, created by on_fill or suspended in an exchange call that has returned, is
\* resumed and runs to its next suspension or to its end: the step FillStep(t, TRUE),
\* PlaceReturns(t, TRUE) or CancelReturns(t, TRUE, TRUE) takes.  (The first disjunct
\* names one such successor outright.)
Resumes(t) ==
    /\ task[t].pc # "idle"
    /\ \/ task' = [task EXCEPT ![t] = IdleTask]
       \/ task'[t].pc # task[t].pc

SpecFair ==
    /\ Init
    /\ [][NextFair]_vars
    /\ \A t \in 0..MaxFillTasks : WF_task(Resumes(t))

---------------------------------------------------------------------------
(* Quoting at the edges of the band: best asks on, just inside and just outside
   [range_min, range_max] and books without asks, with partial and full fills of the
   traps, before the expiry windows; every exchange call succeeds. *)

\* no ask (best_ask None, read as 0.0), 0.39, 0.40, 0.60 and 0.61
BandAsks == {0, range_min - Tick, range_min, range_max, range_max + Tick}

NextBand ==
    \/ \E o \in Outcomes, a \in BandAsks : OnOrderbook(o, a, TRUE)
    \/ \E t \in FillTasks : FillStep(t, TRUE)
    \/ \E t \in Tasks : PlaceReturns(t, TRUE)
    \/ \E t \in Tasks : CancelReturns(t, TRUE, TRUE)
    \/ \E id \in DOMAIN orders : \E size \in FillSizes \cup {orders[id].remaining} :
          Match(id, size, orders[id].outcome)

SpecBand == Init /\ [][NextBand]_vars

---------------------------------------------------------------------------
(* Trades in which the engine's order is a maker:
   the maker_orders entry carries the order's own asset id, price and matched_amount,
   and the trade-level asset id, price and size describe the taker: another asset,
   the complementary price, the size of the whole trade, or a field the message does
   not carry (read as "" or 0).  Exchange calls succeed. *)

\* trade-level price: none, or the complement of the maker's price
TakerPrices(id) == {0, One - orders[id].price}
\* trade-level size: none, or a trade larger than the maker's share of it
TakerSizes(size) == {0, size + QtyScale}

MakerTrade(id, size, asset, price, trade_size) ==
    /\ id \in DOMAIN orders
    /\ orders[id].resting
    /\ \/ size = orders[id].remaining
       \/ size \in FillSizes /\ orders[id].matched = 0 /\ size < orders[id].remaining
    /\ price \in TakerPrices(id)
    /\ trade_size \in TakerSizes(size)
    /\ (id \in tracked /\ order_type_of(St, id) # "UNKNOWN")
          => \E t \in FillTasks : task[t].pc = "idle"
    /\ LET s0 == [St EXCEPT !.orders[id].remaining = @ - size,
                            !.orders[id].matched = size,
                            !.orders[id].resting = (orders[id].remaining - size > 0),
                            !.lastFill = NoFill]
           maker == [order_id |-> id, asset_id |-> orders[id].outcome,
                     price |-> orders[id].price, matched_amount |-> size]
       IN  Apply(_handle_trade(s0, "MATCHED", 0, <<maker>>, asset, price, trade_size))
    /\ UNCHANGED <<phase, c_target, orderBudget, ob, session>>

NextUserChannel ==
    \/ \E o \in Outcomes : \E a \in Asks(o) : OnOrderbook(o, a, TRUE)
    \/ \E t \in FillTasks : FillStep(t, TRUE)
    \/ \E t \in Tasks : PlaceReturns(t, TRUE)
    \/ \E t \in Tasks : CancelReturns(t, TRUE, TRUE)
    \/ \E id \in DOMAIN orders : \E size \in FillSizes \cup {orders[id].remaining},
          asset \in Outcomes \cup {""}, price \in TakerPrices(id) :
             \E trade_size \in TakerSizes(size) :
                MakerTrade(id, size, asset, price, trade_size)

SpecUserChannel == Init /\ [][NextUserChannel]_vars

---------------------------------------------------------------------------
(* Order events on the user channel, next to trades reported with the order's own
   outcome: after a placement and after a match the exchange may send PLACEMENT and
   UPDATE events, and it may cancel a resting order on its own and send
   CANCELLATION.  Exchange calls succeed. *)

\* The exchange sends an order event for order id: PLACEMENT or UPDATE with the size
\* matched so far, or CANCELLATION when it takes the resting order off the book on
\* its own (the engine's own cancels are CancelReturns).
OrderEvent(id, update_type, size_matched) ==
    /\ id \in DOMAIN orders
    /\ orders[id] # GoneOrder
    /\ size_matched \in {0, orders[id].size - orders[id].remaining}
    /\ update_type = "CANCELLATION" => orders[id].resting
    /\ (size_matched > 0 /\ id \in tracked /\ order_type_of(St, id) # "UNKNOWN")
          => \E t \in FillTasks : task[t].pc = "idle"
    /\ LET s0 == IF update_type = "CANCELLATION"
                 THEN [St EXCEPT !.orders[id].resting = FALSE, !.faults = @ + 1]
                 ELSE St
           s1 == [s0 EXCEPT !.lastFill = [NoFill EXCEPT !.order_event = update_type,
                                                        !.event_id = id]]
       IN  Apply(_handle_order_update(s1, id, update_type, size_matched,
                                      orders[id].outcome, orders[id].price))
    /\ UNCHANGED <<phase, c_target, orderBudget, ob, session>>

NextOrderEvents ==
    \/ \E o \in Outcomes : \E a \in Asks(o) : OnOrderbook(o, a, TRUE)
    \/ \E t \in FillTasks : FillStep(t, TRUE)
    \/ \E t \in Tasks : PlaceReturns(t, TRUE)
    \/ \E t \in Tasks : CancelReturns(t, TRUE, TRUE)
    \/ \E id \in DOMAIN orders : \E size \in FillSizes \cup {orders[id].remaining} :
          Match(id, size, orders[id].outcome)
    \/ \E id \in DOMAIN orders :
          \E update_type \in {"PLACEMENT", "UPDATE", "CANCELLATION"},
             size_matched \in {0, orders[id].size - orders[id].remaining} :
                OrderEvent(id, update_type, size_matched)

SpecOrderEvents == Init /\ [][NextOrderEvents]_vars

---------------------------------------------------------------------------
(* The fill callback on its own: on_fill is called for any order the engine has
   issued, at any time and repeatedly, with the order's outcome and price and with
   part or all of its size, whatever the fill stream would have delivered.
   Exchange calls succeed. *)

\* sizes of a callback: 2.5 shares, or the size of the order
CallbackSizes(id) == {5, orders[id].size}

\* on_fill is called with order id
FillCallback(id, size) ==
    /\ id \in DOMAIN orders
    /\ orders[id] # GoneOrder
    /\ size \in CallbackSizes(id)
    /\ order_type_of(St, id) # "UNKNOWN" => \E t \in FillTasks : task[t].pc = "idle"
    /\ Apply(on_fill([St EXCEPT !.lastFill = NoFill], id, orders[id].outcome,
                     orders[id].price, size))
    /\ UNCHANGED <<phase, c_target, orderBudget, ob, session>>

NextCallbacks ==
    \/ \E o \in Outcomes : \E a \in Asks(o) : OnOrderbook(o, a, TRUE)
    \/ \E t \in FillTasks : FillStep(t, TRUE)
    \/ \E t \in Tasks : PlaceReturns(t, TRUE)
    \/ \E t \in Tasks : CancelReturns(t, TRUE, TRUE)
    \/ \E id \in DOMAIN orders : \E size \in CallbackSizes(id) : FillCallback(id, size)

SpecCallbacks == Init /\ [][NextCallbacks]_vars

---------------------------------------------------------------------------
(* Hedging sessions: the clock may enter the expiry windows, the book reports 0.40 on
   both outcomes, every exchange call succeeds, and the traps and the hedge are
   matched in part or in full, each fill reported with its own outcome. *)

InitHedge == InitWith(MaxHedgeOrders)

NextHedge ==
    \/ ClockAdvance
    \/ \E o \in Outcomes : OnOrderbook(o, 40 * Tick, TRUE)
    \/ \E t \in FillTasks : FillStep(t, TRUE)
    \/ \E t \in Tasks : PlaceReturns(t, TRUE)
    \/ \E t \in Tasks : CancelReturns(t, TRUE, TRUE)
    \/ \E id \in DOMAIN orders : \E size \in FillSizes \cup {orders[id].remaining} :
          Match(id, size, orders[id].outcome)

SpecHedge == InitHedge /\ [][NextHedge]_vars

---------------------------------------------------------------------------
(* Properties *)

Slots == <<trap_order_yes, trap_order_no, hedge_order>>

\* pcs of a coroutine suspended in place_limit_order
PlacePcs == {"open_yes_ret", "open_no_ret", "hedge_ret"}

\* a _step that has started and has not returned
InProgress(t) == task[t].pc \notin {"idle", "start"}

RestingOrders(kind, outcome) ==
    {id \in DOMAIN orders :
        orders[id].resting /\ orders[id].kind = kind /\ orders[id].outcome = outcome}

\* C1: when _mode_open has computed a YES trap price and a NO trap price from one
\* pair of best asks, both quotes, the two prices sum to strictly less than 1.
C1_TrapPairBelowOne ==
    \A t \in Tasks :
        (task[t].pc = "open_yes_ret" /\ task[t].yes_trap # 0 /\ task[t].no_trap # 0)
            => task[t].yes_trap + task[t].no_trap < One

\* C2: in a session of sequential rounds (a trap fill, then the fill of the hedge at
\* the engine's price and size), whenever a hedge fill brings the ledger back to
\* balance, combined_vwap is at most c_target.
C2_BalancedBoxWithinTarget ==
    (lastFill.type = "HEDGE" /\ delta_q(inv) = 0)
        => RLeq(combined_vwap(inv), RInt(c_target))

\* C3: an on_fill call whose order id is in none of the three slots changes no
\* ledger field, no slot, no mode, no intent-map entry, and schedules no step.
C3_UnknownFillIgnored ==
    [][(lastFill'.id # 0
        /\ lastFill'.id \notin {trap_order_yes, trap_order_no, hedge_order})
       => UNCHANGED <<inv, trap_order_yes, trap_order_no, hedge_order, mode,
                      order_outcome, task, placing_traps, placing_hedge, lock>>]_vars

\* C3 happens: on_fill was called with an id that is in no slot.
C3_Witness == lastFill.type = "UNKNOWN"

\* C4: at most one _step is in progress at any time.
C4_OneStepAtATime ==
    Cardinality({t \in Tasks : InProgress(t)}) <= 1

\* C5: the ledger is mutated only under the engine mutex; in particular it does not
\* change while a placement batch is suspended in an exchange call.
C5_LedgerUnderMutex ==
    [][(\E t \in Tasks : task[t].pc \in PlacePcs) => inv' = inv]_vars

\* C6: the engine's orders that rest on the exchange include at most one trap per
\* outcome and at most one hedge.
C6_OneRestingOrderPerSlot ==
    /\ \A o \in Outcomes : Cardinality(RestingOrders("trap", o)) <= 1
    /\ Cardinality(RestingOrders("hedge", "YES") \cup RestingOrders("hedge", "NO")) <= 1

\* C7: whenever the hedge slot holds an order, both trap slots are empty.
C7_HedgeExcludesTraps ==
    hedge_order # 0 => (trap_order_yes = 0 /\ trap_order_no = 0)

\* C8: once a tick that ran inside the final-exit window has completed, the mode is
\* STOPPED and all three slots are empty, and no later transition changes that.
C8_FinalExitDone ==
    finalDone => (mode = "STOPPED" /\ Slots = <<0, 0, 0>>)

\* C9: once the mode is STOPPED it stays STOPPED, no order is sent to the exchange
\* and no empty slot becomes non-empty.
C9_StoppedTerminal ==
    [][mode = "STOPPED"
       => /\ mode' = "STOPPED"
          /\ Len(orders') = Len(orders)
          /\ \A t \in Tasks : (task'[t].pc \in PlacePcs => task[t].pc = task'[t].pc)
          /\ (trap_order_yes = 0 => trap_order_yes' = 0)
          /\ (trap_order_no = 0 => trap_order_no' = 0)
          /\ (hedge_order = 0 => hedge_order' = 0)]_vars

\* C10: a tick that starts inside the expiry buffer never places a trap, and a tick
\* that starts there with a balanced ledger places no order at all.
C10_NoTrapInBuffer ==
    [][/\ \A t \in Tasks :
             task'[t].pc \in {"open_yes_ret", "open_no_ret"} => task'[t].phase = "normal"
       /\ (phase # "normal" /\ LessThan001(Abs(delta_q(inv))))
             => \A t \in Tasks : (~InProgress(t) => task'[t].pc \notin PlacePcs)]_vars

\* C10 happens: a tick that started inside the expiry buffer is placing its hedge.
C10_Witness ==
    \E t \in Tasks : task[t].phase = "buffer" /\ task[t].pc = "hedge_ret"

\* 0.01 <= |q| < MIN_HEDGE_THRESHOLD: a residual below the hedge threshold
Dust(q) == ~LessThan001(Abs(q)) /\ BelowHedgeThreshold(Abs(q))

\* C11: the engine never places a hedge order while the imbalance is a residual
\* below the hedge threshold (0.01 <= |dq| < 2.5), in any window before final exit.
C11_NoHedgeOfDust ==
    [][\A t \in Tasks :
          (task'[t].pc = "hedge_ret" /\ task[t].pc # "hedge_ret")
              => ~Dust(delta_q(inv))]_vars

\* the mode table of _step for an imbalance within max_exposure
ModeFor(dq) ==
    IF BelowHedgeThreshold(Abs(dq)) THEN "OPEN"
    ELSE IF dq > 0 THEN "HEDGE_YES" ELSE "HEDGE_NO"

\* the window in which the tick of task t started (a task about to start reads the
\* clock in this step)
TickPhase(t) == IF task[t].pc = "start" THEN phase ELSE task[t].phase

\* the tick of task t ends in this step
TickEnds(t) == task[t].pc # "idle" /\ task'[t].pc = "idle"

\* C12: when a tick that started outside the expiry-buffer and final-exit windows
\* completes, with |dq| <= max_exposure, the mode is the one the mode table gives
\* for the imbalance at the end of the tick.
C12_ModeFollowsImbalance ==
    [][\A t \in Tasks :
          (TickEnds(t) /\ TickPhase(t) = "normal" /\ ~exposure_exceeded(inv'))
              => mode' = ModeFor(delta_q(inv'))]_vars

C14_LockedProfitMonotone ==
    [][/\ RLeq(inv.locked_profit, inv'.locked_profit)
       /\ inv.completed_rounds <= inv'.completed_rounds]_vars

\* Two locks have happened and profit is locked.
C14_Witness ==
    /\ inv.completed_rounds = 2
    /\ RLess(RInt(0), inv.locked_profit)


\* C15: lock_profit is idempotent: on every ledger, calling it twice in a row
\* leaves the same ledger as calling it once.
C15_LockProfitIdempotent ==
    lock_profit(lock_profit(inv, c_target), c_target) = lock_profit(inv, c_target)

\* A ledger on which the first call locks something.
C15_Witness ==
    /\ lock_profit(inv, c_target) # inv
    /\ lock_profit(inv, c_target).completed_rounds = inv.completed_rounds + 1


\* q_i >= 0, c_i >= 0 and q_i = 0 => c_i = 0 on both outcomes
LedgerSane(i) ==
    /\ i.q_yes >= 0 /\ RLeq(RInt(0), i.c_yes) /\ (i.q_yes = 0 => i.c_yes.n = 0)
    /\ i.q_no >= 0 /\ RLeq(RInt(0), i.c_no) /\ (i.q_no = 0 => i.c_no.n = 0)

\* C16: after any sequence of record_fill calls with positive price and size,
\* BUY or SELL, on both outcomes: q_i >= 0, c_i >= 0, and q_i = 0 implies c_i = 0.
C16_LedgerNonNegative == LedgerSane(inv)


\* C17: in every reachable ledger state, after any sequence of record_fill (BUY
\* or SELL), lock_profit and flatten_position, locked_quantity <= min(q_yes, q_no).
C17_LockedWithinPosition == inv.locked_quantity <= Min(inv.q_yes, inv.q_no)


\* C18: for every legal ledger state, to_dict followed by from_dict gives a ledger
\* equal to the original in every accounting field (q_yes, c_yes, q_no, c_no,
\* locked_profit, locked_quantity, completed_rounds, total_trades, total_volume).
C18_DictRoundTrip == from_dict(to_dict(inv)) = inv


\* None, or a price on the 0.01 tick with 0.01 < p <= 0.99
QuoteOrNone(p) == p = 0 \/ (p % Tick = 0 /\ Tick < p /\ p <= 99 * Tick)

\* C19: for every c_target in (0, 1) and every pair of asks inside the band,
\* compute_trap_price returns either no quote or a price p on the 0.01 tick with
\* 0.01 < p <= 0.99; exactly 0.01 is never returned.
C19_TrapPriceAboveOneTick ==
    (orderbook_yes # -1 /\ orderbook_no # -1)
        => /\ QuoteOrNone(compute_trap_price(c_target, orderbook_no, orderbook_yes))
           /\ QuoteOrNone(compute_trap_price(c_target, orderbook_yes, orderbook_no))


\* The fill of the hedge order brings the ledger back to balance.
HedgeCompletes ==
    /\ lastFill'.type = "HEDGE"
    /\ delta_q(inv) # 0
    /\ delta_q(inv') = 0

\* C20: full box round.  Starting balanced in OPEN, when a trap of size s fills and
\* then the hedge the engine placed for it fills completely at its price,
\* completed_rounds grows by exactly 1 and locked_profit by exactly
\* s * (1 - combined_vwap); the tick that follows ends in mode OPEN and its own
\* lock_profit call adds nothing.
C20_FullBoxRound ==
    [][/\ HedgeCompletes
          => /\ inv'.completed_rounds = inv.completed_rounds + 1
             /\ inv'.locked_profit =
                   RAdd(inv.locked_profit,
                        RMul(RInt(Abs(delta_q(inv))),
                             RSub(RInt(One), combined_vwap(inv'))))
       /\ \A t \in Tasks :
             (task' # task /\ task[t].pc # task'[t].pc /\ delta_q(inv) = 0
                    /\ lastFill' = NoFill)
                => /\ inv'.locked_profit = inv.locked_profit
                   /\ inv'.completed_rounds = inv.completed_rounds
                   /\ TickEnds(t) => mode' = "OPEN"]_vars


\* C21: whatever trade messages arrive, the fill stream calls the engine's fill
\* callback at most once per order id; the id is in the tracked set when it is
\* called and no longer in it afterwards.
C21_OneCallbackPerOrder ==
    [][\A id \in DOMAIN fill_calls :
          /\ fill_calls'[id] <= 1
          /\ fill_calls'[id] > fill_calls[id] => (id \in tracked /\ id \notin tracked')]_vars

\* The callback was made on a later report of a trade (the MATCHED report came
\* before the id was tracked).
C21_Witness ==
    /\ lastFill.status \in {"MINED", "CONFIRMED"}
    /\ fill_calls[lastFill.id] = 1
    /\ lastFill.id \notin tracked


\* The stream is running without a subscribed connection being read.
ObDown == ob.running /\ ~(ob.ws = "open" /\ ob.subscribed /\ ob.loop)

\* A task is inside a connection attempt.
ObAttempting == ob.starter = "connecting" \/ ob.reconnect = "connecting"

\* C22: while the order-book stream is running, every disconnect and every failed
\* connection attempt (a reconnect attempt included) is eventually followed by
\* another attempt, and, attempts eventually succeeding, the stream is eventually
\* connected again and subscribed to both asset ids.
C22_AlwaysReconnects ==
    /\ (ObDown /\ ~ObAttempting) ~> (ObAttempting \/ ~ob.running)
    /\ ObDown ~> (~ObDown)


\* C23: on session shutdown cancel-all runs first, then flatten, and no stream (the
\* fill stream, the order-book stream) is closed before both have run.
C23_StreamsClosedLast ==
    /\ session.flatten => session.cancel_all
    /\ (~session.user_channel \/ ~ob.running) => (session.cancel_all /\ session.flatten)


\* the placement call task t is suspended in has returned no order, and t resumes in
\* this step
Refused(t) == task[t].pc \in PlacePcs /\ task[t].oid = 0 /\ task'[t].pc # task[t].pc

\* the slot, in state s, of the placement that a coroutine at `pc` is suspended in
PlaceSlot(s, pc) ==
    CASE pc = "open_yes_ret" -> s.trap_order_yes
      [] pc = "open_no_ret" -> s.trap_order_no
      [] OTHER -> s.hedge_order

\* a tick started by task t in state s, up to its first suspension, calls
\* place_limit_order for a trap on `outcome` or is about to after the YES trap's call
AttemptsTrap(s, t, outcome) ==
    LET r == _step(s, t, "normal", c_target, TRUE)
    IN  IF outcome = "YES" THEN r.task[t].pc = "open_yes_ret"
        ELSE \/ r.task[t].pc = "open_no_ret"
             \/ r.task[t].pc = "open_yes_ret" /\ r.task[t].no_trap # 0

\* the same for the hedge: the tick calls place_limit_order for a hedge
AttemptsHedge(s, t) == _step(s, t, "normal", c_target, TRUE).task[t].pc = "hedge_ret"

\* the conditions under which a tick quotes a trap on `outcome`
QuotesTrap(s, outcome) ==
    /\ ~exposure_exceeded(s.inv)
    /\ BelowHedgeThreshold(Abs(delta_q(s.inv)))
    /\ s.orderbook_yes # -1 /\ s.orderbook_no # -1
    /\ IF outcome = "YES"
       THEN compute_trap_price(c_target, s.orderbook_no, s.orderbook_yes) # 0
       ELSE compute_trap_price(c_target, s.orderbook_yes, s.orderbook_no) # 0

\* the conditions under which a tick hedges: an imbalance at or above the threshold,
\* both books known and no trap left to cancel first
Hedges(s) ==
    /\ ~BelowHedgeThreshold(Abs(delta_q(s.inv)))
    /\ s.orderbook_yes # -1 /\ s.orderbook_no # -1
    /\ s.trap_order_yes = 0 /\ s.trap_order_no = 0

\* C24: when a placement call for a trap or a hedge returns no order, the slot of that
\* order is empty afterwards, nothing is added to the intent map or to the tracked
\* set, the guard of the batch is released when the batch ends, and a next tick under
\* conditions that quote that trap (or call for a hedge) calls the exchange again.
C24_RefusedPlacementRetried ==
    [][\A t \in Tasks :
          Refused(t) =>
             /\ PlaceSlot(St', task[t].pc) = 0
             /\ order_outcome' \subseteq order_outcome
             /\ tracked' \subseteq tracked
             /\ TickEnds(t) =>
                   /\ task[t].pc = "hedge_ret" => ~placing_hedge'
                   /\ task[t].pc # "hedge_ret" => ~placing_traps'
                   /\ (task[t].pc = "open_yes_ret" /\ QuotesTrap(St', "YES"))
                         => AttemptsTrap(St', t, "YES")
                   /\ (task[t].pc = "open_no_ret" /\ QuotesTrap(St', "NO"))
                         => AttemptsTrap(St', t, "NO")
                   /\ (task[t].pc = "hedge_ret" /\ Hedges(St'))
                         => AttemptsHedge(St', t)]_vars


\* pcs of a trap batch and of a hedge batch suspended in an exchange call
TrapBatchPcs == {"open_yes_ret", "open_no_ret"}
HedgeBatchPcs == {"hedge_cy", "hedge_cn", "hedge_ch", "hedge_ret"}

\* task t calls place_limit_order in this step from a batch at one of `pcs`
Places(t, pcs) ==
    /\ task'[t].pc \in pcs \cap PlacePcs
    /\ task'[t].pc # task[t].pc

\* while one trap batch is suspended, no second trap batch places an order
NoSecondTrapBatch ==
    \A t, u \in Tasks :
        (t # u /\ task[t].pc \in TrapBatchPcs /\ task'[t].pc \in TrapBatchPcs)
            => ~Places(u, TrapBatchPcs)

\* while one hedge batch is suspended, no second hedge batch places an order
NoSecondHedgeBatch ==
    \A t, u \in Tasks :
        (t # u /\ task[t].pc \in HedgeBatchPcs /\ task'[t].pc \in HedgeBatchPcs)
            => ~Places(u, HedgeBatchPcs)

\* placing_hedge, while the batch that set it is suspended, is not cleared by a step
\* of anything else
HedgeGuardKept ==
    \A t \in Tasks :
        (task[t].pc \in HedgeBatchPcs /\ task'[t] = task[t] /\ placing_hedge)
            => placing_hedge'

\* C25: the re-entrance guards exclude duplicates: no second trap batch places an order
\* while one is suspended in an exchange call, no second hedge batch places an order
\* while one is suspended, and placing_hedge is cleared only by the batch that set it.
C25_GuardsExcludeDuplicates ==
    [][NoSecondTrapBatch /\ NoSecondHedgeBatch /\ HedgeGuardKept]_vars


\* the long side and the hedge price a tick computes from the ledger i
LongSide(i) == IF delta_q(i) > 0 THEN "YES" ELSE "NO"
HedgePriceFor(i, long_side) ==
    ClampRound(RInt(compute_hedge_price(c_target,
                                        IF long_side = "YES" THEN mu_yes(i) ELSE mu_no(i))))
NewHedgePrice(i) == HedgePriceFor(i, LongSide(i))

\* the live hedge is on the outcome opposite to the long side and within 0.005 of the
\* newly computed price
HedgeCurrent ==
    /\ orders[hedge_order].outcome = Opposite(LongSide(inv))
    /\ 2 * Abs(orders[hedge_order].price - NewHedgePrice(inv)) < Tick

\* a _step task created by on_fill starts in this step, outside the expiry windows,
\* with an imbalance to hedge and a hedge in the slot
HedgeTickOverLiveHedge(t) ==
    /\ t \in FillTasks
    /\ task[t].pc = "start" /\ task'[t].pc # "start"
    /\ phase = "normal"
    /\ ~BelowHedgeThreshold(Abs(delta_q(inv)))
    /\ hedge_order # 0

\* C26: on a hedge tick over a live hedge, the hedge is kept only if it is on the
\* outcome opposite to the long side and within 0.005 of the new hedge price; otherwise
\* the tick cancels it, and when the cancel returns a hedge is placed on the opposite
\* outcome at the new price.
C26_StaleHedgeReplaced ==
    [][\A t \in Tasks :
          /\ HedgeTickOverLiveHedge(t) =>
                IF HedgeCurrent
                THEN hedge_order' = hedge_order /\ task'[t].pc = "idle"
                ELSE task'[t].pc = "hedge_ch" /\ task'[t].oid = hedge_order
          /\ (task[t].pc = "hedge_ch" /\ task'[t].pc # "hedge_ch") =>
                /\ task'[t].pc = "hedge_ret"
                /\ task'[t].oid # 0 =>
                      /\ orders'[task'[t].oid].outcome = Opposite(task[t].long_side)
                      /\ orders'[task'[t].oid].price = task[t].h_price]_vars


\* the size _mode_hedge computes for the imbalance of ledger i: max(|dq|, 5)
HedgeSize(i) ==
    IF BelowMinSize(Abs(delta_q(i))) THEN MinPolymarketSize ELSE Abs(delta_q(i))

\* in this step the hedge in the slot, placed on the outcome opposite to the long side
\* with the size computed for the present imbalance (at or above the threshold), is
\* matched in full in one trade and the fill is credited, outside the expiry windows
HedgeFillsCompletely ==
    /\ phase = "normal"
    /\ hedge_order # 0
    /\ lastFill'.type = "HEDGE" /\ lastFill'.id = hedge_order
    /\ orders[hedge_order].remaining = orders[hedge_order].size
    /\ ~orders'[hedge_order].resting
    /\ ~BelowHedgeThreshold(Abs(delta_q(inv)))
    /\ orders[hedge_order].outcome = Opposite(LongSide(inv))
    /\ orders[hedge_order].size = HedgeSize(inv)

\* C27: outside the expiry windows, when a hedge of size max(|dq|, 5) placed for an
\* imbalance |dq| >= 2.5 fills completely, the imbalance after the fill is below 2.5, so
\* the next tick is in OPEN and does not hedge the opposite side.
C27_NoPingPong ==
    [][HedgeFillsCompletely => BelowHedgeThreshold(Abs(delta_q(inv')))]_vars


TrapFillOpens(long_side) ==
    /\ lastFill.type \in {"TRAP_YES", "TRAP_NO"}
    /\ phase = "normal"
    /\ ~BelowHedgeThreshold(Abs(delta_q(inv)))
    /\ LongSide(inv) = long_side

\* a tick is calling place_limit_order for a hedge of `long_side`, i.e. on the
\* opposite outcome, or such a hedge is in the slot
HedgeCalled(long_side) ==
    \/ \E t \in Tasks : task[t].pc = "hedge_ret" /\ task[t].long_side = long_side
    \/ hedge_order # 0 /\ orders[hedge_order].outcome = Opposite(long_side)

\* the imbalance on `long_side` is gone: a later fill has brought it below the
\* threshold or to the other side
ImbalanceGone(long_side) ==
    BelowHedgeThreshold(Abs(delta_q(inv))) \/ LongSide(inv) # long_side

\* C29: after a trap fill that makes |dq| >= 2.5 outside the expiry windows, exchange
\* calls succeeding, a hedge on the opposite outcome is eventually placed (unless the
\* imbalance goes away first) even if no order-book update ever arrives: the tick that
\* the fill schedules places it.
C29_FillSchedulesHedge ==
    /\ TrapFillOpens("YES") ~> (HedgeCalled("YES") \/ ImbalanceGone("YES"))
    /\ TrapFillOpens("NO") ~> (HedgeCalled("NO") \/ ImbalanceGone("NO"))


CancelPcs == {"hedge_cy", "hedge_cn", "hedge_ch", "exit_cy", "exit_cn", "exit_ch"}

\* task t starts a tick in this step: the order-book callback (task 0) on a book
\* update, or a _step task created by on_fill
TickStarts(t) ==
    IF t = 0
    THEN /\ task[0].pc = "idle" /\ lock = -1
         /\ orderbook_yes' # orderbook_yes \/ orderbook_no' # orderbook_no
            \/ task'[0] # task[0]
    ELSE task[t].pc = "start" /\ task'[t].pc # "start"

\* the tick that starts takes the OPEN branch of _step
OpenTick(t) ==
    /\ TickStarts(t)
    /\ phase = "normal"
    /\ orderbook_yes' # -1 /\ orderbook_no' # -1
    /\ ~exposure_exceeded(inv)
    /\ BelowHedgeThreshold(Abs(delta_q(inv)))

\* the trap in `slot` stays there, is not cancelled by task t and rests at its price
TrapKept(t, slot, slot_after) ==
    /\ slot_after = slot
    /\ ~(task'[t].pc \in CancelPcs /\ task'[t].oid = slot)
    /\ orders'[slot].price = orders[slot].price
    /\ orders'[slot].resting = orders[slot].resting

\* the trap that was in `slot` has been credited as filled in this step, or a tick on
\* its way to hedge or to final exit has taken it out to cancel it
FilledOrCancelled(slot, pcs) ==
    \/ lastFill'.id = slot /\ lastFill'.type \in {"TRAP_YES", "TRAP_NO"}
    \/ \E t \in Tasks : task'[t].pc \in pcs /\ task'[t].oid = slot /\ task[t].pc # task'[t].pc

\* C30: traps are not refreshed: an OPEN tick with both trap slots occupied makes no
\* exchange call and leaves both slots as they are, whatever the new best asks; an OPEN
\* tick with one slot occupied neither cancels nor re-prices the trap in it; and a
\* trap leaves its slot only when it is filled or when a tick going to hedge or to
\* final exit cancels it.
C30_TrapsNotRefreshed ==
    [][/\ \A t \in Tasks :
             OpenTick(t) =>
                /\ (trap_order_yes # 0 /\ trap_order_no # 0) => task'[t].pc = "idle"
                /\ trap_order_yes # 0 => TrapKept(t, trap_order_yes, trap_order_yes')
                /\ trap_order_no # 0 => TrapKept(t, trap_order_no, trap_order_no')
       /\ (trap_order_yes # 0 /\ trap_order_yes' # trap_order_yes)
             => FilledOrCancelled(trap_order_yes, {"hedge_cy", "exit_cy"})
       /\ (trap_order_no # 0 /\ trap_order_no' # trap_order_no)
             => FilledOrCancelled(trap_order_no, {"hedge_cn", "exit_cn"})]_vars


\* the two traps of the first batch are in their slots, no tick is in progress, and the
\* book has moved since: the YES trap rests at another price than the one _mode_open
\* would compute from the present best asks
C30_Witness ==
    /\ Len(orders) = 2
    /\ trap_order_yes = 1 /\ trap_order_no = 2
    /\ orders[1].resting /\ orders[2].resting
    /\ \A t \in Tasks : task[t].pc = "idle"
    /\ mode = "OPEN" /\ phase = "normal"
    /\ orders[1].price # compute_trap_price(c_target, orderbook_no, orderbook_yes)


\* either best ask is missing or lies outside [range_min, range_max]
OutOfRange(yes_ask, no_ask) ==
    \E a \in {yes_ask, no_ask} : a = 0 \/ a < range_min \/ a > range_max

\* C31: out-of-range silence: a tick before the expiry windows with |dq| below the
\* hedge threshold, and with either best ask missing or outside the band, makes no
\* exchange call, places no order and ends with the engine in mode OPEN
C31_OutOfRangeSilence ==
    [][\A t \in Tasks :
          (OpenTick(t) /\ OutOfRange(orderbook_yes', orderbook_no')) =>
              /\ task'[t].pc = "idle"
              /\ Len(orders') = Len(orders)
              /\ trap_order_yes' = trap_order_yes /\ trap_order_no' = trap_order_no
              /\ mode' = "OPEN"]_vars

\* ticks have run to their end over a book whose YES ask is above the band while the
\* YES slot is empty after a partial fill that left a small imbalance
C31_Witness ==
    /\ Quiet /\ phase = "normal" /\ mode = "OPEN"
    /\ orderbook_yes = range_max + Tick /\ orderbook_no = range_min
    /\ trap_order_yes = 0 /\ trap_order_no # 0
    /\ delta_q(inv) # 0 /\ BelowHedgeThreshold(Abs(delta_q(inv)))
    /\ Len(orders) < orderBudget


\* the exchange matches part or all of the resting order id in this step (a cancel
\* is the step of a task that leaves a cancel_order call)
Matched(id) ==
    /\ orders[id].resting
    /\ orders'[id].remaining < orders[id].remaining
    /\ \A t \in Tasks : task[t].pc \in CancelPcs => task'[t].pc = task[t].pc

\* C32: a trade event whose maker_orders names a tracked order produces a fill that
\* carries the entry's own asset (as its outcome), price and matched_amount, whatever
\* the trade-level asset id, price and size are
C32_MakerFillOwnFields ==
    [][\A id \in DOMAIN orders :
          (Matched(id) /\ id \in tracked) =>
              /\ fill_calls'[id] = fill_calls[id] + 1
              /\ lastFill'.id = id
              /\ lastFill'.reported = orders[id].outcome
              /\ lastFill'.price = orders[id].price
              /\ lastFill'.size = orders[id].remaining - orders'[id].remaining]_vars


\* C33: an order event (PLACEMENT, UPDATE, CANCELLATION) never calls the engine's fill
\* callback, whatever its size_matched: the ledger, the slots and the mode stay as
\* they are, and the tracked set changes only by a CANCELLATION losing its id
C33_OrderEventsNoFill ==
    [][lastFill'.order_event # "" =>
          /\ fill_calls' = fill_calls
          /\ lastFill'.id = 0
          /\ inv' = inv /\ mode' = mode /\ task' = task
          /\ <<trap_order_yes', trap_order_no', hedge_order'>>
                = <<trap_order_yes, trap_order_no, hedge_order>>
          /\ order_outcome' = order_outcome
          /\ tracked' = IF lastFill'.order_event = "CANCELLATION"
                        THEN tracked \ {lastFill'.event_id}
                        ELSE tracked]_vars

\* an UPDATE event has been handled for an order that is tracked, is in its slot and
\* has been matched in part (the trade came before the id was tracked)
C33_Witness ==
    /\ lastFill.order_event = "UPDATE"
    /\ lastFill.event_id \in tracked
    /\ lastFill.event_id \in {trap_order_yes, trap_order_no, hedge_order}
    /\ orders[lastFill.event_id].remaining < orders[lastFill.event_id].size


\* C34: flatten_position sends at most one order: none when |dq| < 0.01, otherwise one
\* SELL on the long side of size |dq| at max(0.01, best_bid - 0.02), with best_bid
\* taken as 0.01 when no bid is known; and when the order is rejected or the call
\* fails the ledger is as it was
C34_FlattenOneSell ==
    [][/\ (session.pc = "cancel_all" /\ session'.pc # "cancel_all") =>
             LET dq == delta_q(inv)
                 best_bid == IF session'.best_bid = 0 THEN Tick ELSE session'.best_bid
             IN  IF LessThan001(Abs(dq))
                 THEN session'.market_order = NoMarketOrder /\ session'.pc = "ob_stop"
                 ELSE /\ session'.market_order.side = "SELL"
                      /\ session'.market_order.outcome = LongSide(inv)
                      /\ session'.market_order.size = Abs(dq)
                      /\ session'.market_order.price = Max(Tick, best_bid - 2 * Tick)
                      /\ session'.pc = "flatten"
       /\ session.pc # "cancel_all" => session'.market_order = session.market_order
       /\ (session.pc = "flatten" /\ session'.pc # "flatten" /\ ~session'.sold)
             => inv' = inv]_vars

\* the market SELL of an unhedged position, priced at the 0.01 floor from a best bid
\* of 0.02, was rejected, and stop() has gone on
C34_Witness ==
    /\ session.pc = "ob_stop" /\ ~session.sold
    /\ session.market_order # NoMarketOrder
    /\ session.best_bid = 2 * Tick /\ session.market_order.price = Tick
    /\ delta_q(inv) # 0


\* q_yes, c_yes, q_no and c_no of a ledger
Position(i) == <<i.q_yes, i.c_yes, i.q_no, i.c_no>>

\* C35: the ledger's quantities and costs change only through record_fill (lock_profit
\* leaves them as they are): every step that changes them is an on_fill call that
\* applies record_fill with the reported price and size, a flatten on shutdown
\* included; and an outcome with no quantity has no cost, also after flatten
C35_LedgerOnlyByRecordFill ==
    [][/\ Position(inv') # Position(inv) =>
             /\ lastFill'.id # 0
             /\ \E outcome \in Outcomes :
                   Position(inv') = Position(record_fill(inv, outcome, "BUY",
                                                         lastFill'.price, lastFill'.size))
       /\ inv'.q_yes = 0 => inv'.c_yes.n = 0
       /\ inv'.q_no = 0 => inv'.c_no.n = 0]_vars


\* the quantity of `outcome` in ledger i
Quantity(i, outcome) == IF outcome = "YES" THEN i.q_yes ELSE i.q_no

\* C36: the ledger tracks the true position: whenever the exchange matches part or
\* all of a BUY order the engine issued, the ledger's quantity of the order's outcome
\* grows by the matched size in the same step (the fill is not lost), and the
\* quantities change in no other step
C36_LedgerTracksPosition ==
    [][/\ \A id \in DOMAIN orders :
             Matched(id) =>
                /\ Quantity(inv', orders[id].outcome)
                      = Quantity(inv, orders[id].outcome)
                        + (orders[id].remaining - orders'[id].remaining)
                /\ Quantity(inv', Opposite(orders[id].outcome))
                      = Quantity(inv, Opposite(orders[id].outcome))
       /\ (\A id \in DOMAIN orders : ~Matched(id))
             => (inv'.q_yes = inv.q_yes /\ inv'.q_no = inv.q_no)]_vars


\* the last transition was an on_fill call that applied order id to the ledger
Applied(id) == lastFill.id = id /\ lastFill.type # "UNKNOWN"

\* C37: each order id is applied to the ledger at most once, however often and
\* whenever on_fill is called with it: on_fill calls record_fill only for an id that
\* is in a slot, the call empties the slot, and from an application on the id is in
\* no slot any more, so that every later call with it is classified as unknown
C37_AppliedAtMostOnce ==
    /\ [][\A id \in DOMAIN orders :
             lastFill'.id = id =>
                IF id \in {trap_order_yes, trap_order_no, hedge_order}
                THEN /\ lastFill'.type # "UNKNOWN"
                     /\ id \notin {trap_order_yes', trap_order_no', hedge_order'}
                ELSE lastFill'.type = "UNKNOWN" /\ inv' = inv]_vars
    /\ \A id \in 1..MaxOrders :
          [](Applied(id) => [](id \notin {trap_order_yes, trap_order_no, hedge_order}))

\* on_fill was called a second time with the id of order 1, the only id it has been
\* called with, which it had applied to the ledger, and has classified it as unknown
C37_Witness ==
    /\ lastFill.id = 1 /\ lastFill.type = "UNKNOWN"
    /\ fill_calls[1] = 2
    /\ \A id \in DOMAIN fill_calls : id # 1 => fill_calls[id] = 0
    /\ inv.total_trades = 1


\* C38: a hedge never increases the imbalance: at the moment a hedge order is sent it
\* buys the outcome that is short in the ledger at that moment (NO when dq > 0, YES
\* when dq < 0), also when fills were applied while the batch was suspended
C38_HedgeBuysShortSide ==
    [][\A t \in Tasks :
          (Places(t, {"hedge_ret"}) /\ task'[t].oid # 0) =>
              LET dq == delta_q(inv)
                  o == orders'[task'[t].oid]
              IN  \/ dq > 0 /\ o.outcome = "NO"
                  \/ dq < 0 /\ o.outcome = "YES"]_vars


\* C39: shutdown leaves nothing behind: once StrategyEngine.stop() has returned, no trap
\* or hedge order issued by the engine is still resting on the exchange and all three
\* slots are empty, also when ticks ran while stop() was suspended
C39_ShutdownLeavesNothing ==
    session.pc = "done" =>
        /\ \A id \in DOMAIN orders : ~orders[id].resting
        /\ trap_order_yes = 0 /\ trap_order_no = 0 /\ hedge_order = 0

====
